---- MODULE Spec2Model ----
(***************************************************************************)
(* Model of gardener-extension-otelcol: the actuator's reconciliation      *)
(* triggers (pkg/actuator/actuator.go), the admission validator            *)
(* (pkg/admission/validator) and the configuration validation              *)
(* (pkg/apis/config/validation/validation.go).                             *)
(*                                                                         *)
(* Conventions:                                                            *)
(*  - a Go pointer is a sequence of length 0 (nil) or 1 (the pointee);     *)
(*  - a Go error is a chain of frames, outermost first; <<>> is nil; a     *)
(*    frame has the dynamic type of the error value as its kind;           *)
(*  - a Go string that is parsed is a sequence of one-character strings.   *)
(***************************************************************************)
EXTENDS Integers, Sequences, FiniteSets, TLC

(***************************************************************************)
(* Bounds                                                                  *)
(***************************************************************************)
\* Largest total of counter increments a process performs before it is
\* restarted (New resets the in-process counters).
MaxCount == 2
\* Largest number of extension blocks in the spec of an admitted object.
MaxExtensions == 2
\* Largest number of fields in which a validated config differs from one of
\* the base configs.
MaxEdits == 2
\* Largest number of fmt.Errorf("...%w") layers around an error value.
MaxWraps == 2

(***************************************************************************)
(* Constants of the program                                                *)
(***************************************************************************)
ExtensionType == "otelcol"
managedResourceName == "external-otelcol"
targetAllocatorServiceAccountName == "external-otelcol-targetallocator"
targetAllocatorRoleName == "external-otelcol-targetallocator"
targetAllocatorName == "external-otelcol"
OpenTelemetryCollector == "OpenTelemetryCollector"

\* Resource keys: the namespace of the Extension resource is the cluster name.
Namespaces == {"shoot--a", "shoot--b"}
\* Resource keys the engine specification draws its triggers from.
EngineNamespaces == {"shoot--a"}

TriggerKinds == {"reconcile", "delete", "force_delete", "restore", "migrate"}

(***************************************************************************)
(* Errors                                                                  *)
(***************************************************************************)
NoError == <<>>

\* one frame of an error chain: kind is the type of the error value, text
\* its own message as a token sequence, items the field errors of an
\* aggregate, id the name of the package variable that holds the value
\* ("" for a value made where it is returned)
Frame(kind, text, items) == <<[kind |-> kind, text |-> text, items |-> items, id |-> ""]>>

\* errors.New / a fmt.Errorf without %w
NewError(text) == Frame("errorString", text, <<>>)

\* fmt.Errorf with a %w verb: the frame of the new text around err
WrapError(text, err) == Frame("wrapError", text, <<>>) \o err

\* the API server's NotFound status error
NotFoundError == Frame("StatusError", <<"NotFound">>, <<>>)
\* any other error of the API server (conflict, timeout, unavailable, ...)
TransientError == Frame("StatusError", <<"ServerError">>, <<>>)

\* var ErrExtensionNotFound = errors.New("extension not found")
ErrExtensionNotFound ==
    <<[kind |-> "errorString", text |-> <<"extension not found">>, items |-> <<>>,
       id |-> "ErrExtensionNotFound"]>>

IsNotFound(err) == \E i \in 1..Len(err) : err[i] = NotFoundError[1]

IgnoreNotFound(err) == IF IsNotFound(err) THEN NoError ELSE err

\* the tokens of err.Error(): the texts of the frames and of their items
MessageTokens(err) ==
    UNION {{err[i].text[j] : j \in 1..Len(err[i].text)} : i \in 1..Len(err)}
    \cup UNION {{err[i].items[j].detail : j \in 1..Len(err[i].items)} : i \in 1..Len(err)}

(***************************************************************************)
(* Strings and net/url.Parse                                               *)
(***************************************************************************)
Letters == {"a","b","c","d","e","f","g","h","i","j","k","l","m","n","o","p","q",
            "r","s","t","u","v","w","x","y","z","A","B","C","D","E","F","G","H",
            "I","J","K","L","M","N","O","P","Q","R","S","T","U","V","W","X","Y","Z"}
Digits == {"0","1","2","3","4","5","6","7","8","9"}
HexDigits == Digits \cup {"a","b","c","d","e","f","A","B","C","D","E","F"}
\* bytes below 0x20 and 0x7f
ControlChars == {"\t", "\n", "\r"}
\* bytes shouldEscape(c, encodeHost) lets through unescaped
HostChars == Letters \cup Digits \cup
             {"-", "_", ".", "~", "!", "$", "&", "'", "(", ")", "*", "+", ",",
              ";", "=", ":", "[", "]", "<", ">", "\""}

\* first index of character c in s, 0 when absent (strings.Index)
Index(s, c) ==
    IF \E i \in 1..Len(s) : s[i] = c
    THEN CHOOSE i \in 1..Len(s) : s[i] = c /\ \A j \in 1..(i-1) : s[j] # c
    ELSE 0

\* last index of character c in s, 0 when absent (strings.LastIndex)
LastIndex(s, c) ==
    IF \E i \in 1..Len(s) : s[i] = c
    THEN CHOOSE i \in 1..Len(s) : s[i] = c /\ \A j \in (i+1)..Len(s) : s[j] # c
    ELSE 0

HasPrefix(s, p) == Len(s) >= Len(p) /\ SubSeq(s, 1, Len(p)) = p

\* the characters a scheme may continue with
SchemeChars == Letters \cup Digits \cup {"+", "-", "."}

\* first index of s whose character is not in set, 0 when there is none
FirstNotIn(s, set) ==
    IF \E i \in 1..Len(s) : s[i] \notin set
    THEN CHOOSE i \in 1..Len(s) : s[i] \notin set /\ \A j \in 1..(i-1) : s[j] \in set
    ELSE 0

\* the part of s before the first c (all of s when c is absent), and the
\* part from the first c on (empty when c is absent)
CutBefore(s, c) == IF Index(s, c) = 0 THEN s ELSE SubSeq(s, 1, Index(s, c) - 1)
CutFrom(s, c) == IF Index(s, c) = 0 THEN <<>> ELSE SubSeq(s, Index(s, c), Len(s))

\* getScheme, once the scan has stopped at index i (0: end of string)
schemeSplit(rawURL, i) ==
    IF i = 0 \/ rawURL[i] # ":"
    THEN [err |-> FALSE, scheme |-> <<>>, rest |-> rawURL]
    ELSE IF i = 1
    THEN [err |-> TRUE, scheme |-> <<>>, rest |-> <<>>]       \* missing protocol scheme
    ELSE [err |-> FALSE, scheme |-> SubSeq(rawURL, 1, i - 1),
          rest |-> SubSeq(rawURL, i + 1, Len(rawURL))]

\* getScheme: [err, scheme, rest]. A digit, "+", "-" or "." in first
\* position means there is no scheme.
getScheme(rawURL) ==
    IF rawURL # <<>> /\ rawURL[1] \in SchemeChars \ Letters
    THEN [err |-> FALSE, scheme |-> <<>>, rest |-> rawURL]
    ELSE schemeSplit(rawURL, FirstNotIn(rawURL, SchemeChars))

\* unescape in path or fragment mode fails only on a malformed %-escape
BadEscape(s) ==
    \E i \in 1..Len(s) :
        /\ s[i] = "%"
        /\ ~(i + 2 <= Len(s) /\ s[i+1] \in HexDigits /\ s[i+2] \in HexDigits)

\* validOptionalPort: "" or ":" followed by digits
validOptionalPort(port) ==
    \/ port = <<>>
    \/ /\ port[1] = ":"
       /\ \A i \in 2..Len(port) : port[i] \in Digits

\* parseHost fails on a bad port, an unclosed bracket, a bad escape or a
\* character that may not appear in a host name
parseHostFails(host) ==
    \/ /\ HasPrefix(host, <<"[">>)
       /\ \/ LastIndex(host, "]") = 0
          \/ ~validOptionalPort(SubSeq(host, LastIndex(host, "]") + 1, Len(host)))
    \/ /\ ~HasPrefix(host, <<"[">>)
       /\ LastIndex(host, ":") # 0
       /\ ~validOptionalPort(SubSeq(host, LastIndex(host, ":"), Len(host)))
    \/ BadEscape(host)
    \/ \E i \in 1..Len(host) : host[i] \notin HostChars \cup {"%"}

\* parseAuthority: the host is what follows the last "@"
parseAuthorityFails(authority) ==
    LET at == LastIndex(authority, "@")
        host == SubSeq(authority, at + 1, Len(authority))
        userinfo == SubSeq(authority, 1, at - 1)
    IN  \/ parseHostFails(host)
        \/ /\ at # 0
           /\ \E i \in 1..Len(userinfo) :
                 userinfo[i] \notin Letters \cup Digits \cup
                    {"-", ".", "_", ":", "~", "!", "$", "&", "'", "(", ")", "*",
                     "+", ",", ";", "=", "%", "@"}

\* parse, from the "//" of an authority on: the authority ends at the next "/"
parseFromAuthorityFails(s) ==
    parseAuthorityFails(CutBefore(s, "/")) \/ BadEscape(CutFrom(s, "/"))

\* parse, after the scheme and the query have been split off
parseRestFails(scheme, rest) ==
    IF ~HasPrefix(rest, <<"/">>) /\ scheme # <<>> THEN FALSE              \* opaque
    ELSE IF ~HasPrefix(rest, <<"/">>) /\ Index(CutBefore(rest, "/"), ":") # 0
    THEN TRUE                          \* first path segment cannot contain colon
    ELSE IF /\ (scheme # <<>> \/ ~HasPrefix(rest, <<"/", "/", "/">>))
            /\ HasPrefix(rest, <<"/", "/">>)
    THEN parseFromAuthorityFails(SubSeq(rest, 3, Len(rest)))
    ELSE BadEscape(rest)

\* parse, after getScheme
parseSchemeFails(gs) ==
    gs.err \/ parseRestFails(gs.scheme, CutBefore(gs.rest, "?"))

\* parse(rawURL, viaRequest = false) of net/url: TRUE when it returns an error
parseFails(u) ==
    IF \E i \in 1..Len(u) : u[i] \in ControlChars THEN TRUE
    ELSE IF u = <<"*">> THEN FALSE
    ELSE parseSchemeFails(getScheme(u))

\* url.Parse: TRUE when the returned error is non-nil
urlParseFails(rawURL) ==
    \/ parseFails(CutBefore(rawURL, "#"))
    \/ Index(rawURL, "#") # 0 /\ BadEscape(Tail(CutFrom(rawURL, "#")))

\* Sample strings for URL fields
EmptyString == <<>>
UrlGood == <<"h","t","t","p",":","/","/","h","o",":","4","3">>       \* "http://ho:43"
UrlNotAUrl == <<"n","o","t"," ","a"," ","u","r","l">>                 \* "not a url"
UrlNoScheme == <<":","/","/","h">>                                    \* "://h"
UrlBadEscape == <<"/","a","%","z","z">>                               \* "/a%zz"
UrlBadPort == <<"h","t","t","p",":","/","/","h",":","x">>            \* "http://h:x"

(***************************************************************************)
(* config.CollectorConfig and validation.Validate                          *)
(***************************************************************************)
Nil == <<>>
Ptr(v) == <<v>>

\* a *config.ResourceReference: name and dataKey of its ResourceRef
Ref(name, dataKey) == Ptr([name |-> name, dataKey |-> dataKey])

\* the zero value of config.CollectorConfig
ZeroConfig ==
    [debug |-> [enabled |-> Nil],
     otlphttp |-> [enabled |-> Nil,
                   endpoint |-> EmptyString,
                   traces_endpoint |-> EmptyString,
                   metrics_endpoint |-> EmptyString,
                   logs_endpoint |-> EmptyString,
                   profiles_endpoint |-> EmptyString,
                   read_buffer_size |-> 0,
                   write_buffer_size |-> 0,
                   token |-> Nil,
                   tls |-> [ca |-> Nil, cert |-> Nil, key |-> Nil]]]

\* IsEnabled of an exporter config: the Enabled flag is set and true
IsEnabled(exporter) == exporter.enabled # Nil /\ exporter.enabled[1]

\* field.Required / field.Invalid
FieldRequired(path, detail) == [path |-> path, type |-> "Required value", detail |-> detail]
FieldInvalid(path, detail) == [path |-> path, type |-> "Invalid value", detail |-> detail]

\* the elements of list that pass the test, in order
RECURSIVE SelectErrs(_, _)
SelectErrs(list, keep) ==
    IF list = <<>> THEN <<>>
    ELSE IF keep[1] THEN <<list[1]>> \o SelectErrs(Tail(list), Tail(keep))
    ELSE SelectErrs(Tail(list), Tail(keep))

\* field.ErrorList.ToAggregate: nil for an empty list, otherwise one
\* aggregate of the errors, those with an already seen message dropped
ToAggregate(allErrs) ==
    IF allErrs = <<>> THEN NoError
    ELSE Frame("aggregate", <<>>,
               SelectErrs(allErrs,
                          [i \in 1..Len(allErrs) |->
                              \A j \in 1..(i-1) : allErrs[j] # allErrs[i]]))

urlFields(cfg) ==
    << [path |-> "spec.exporters.otlphttp.endpoint", value |-> cfg.otlphttp.endpoint],
       [path |-> "spec.exporters.otlphttp.traces_endpoint", value |-> cfg.otlphttp.traces_endpoint],
       [path |-> "spec.exporters.otlphttp.metrics_endpoint", value |-> cfg.otlphttp.metrics_endpoint],
       [path |-> "spec.exporters.otlphttp.logs_endpoint", value |-> cfg.otlphttp.logs_endpoint],
       [path |-> "spec.exporters.otlphttp.profiles_endpoint", value |-> cfg.otlphttp.profiles_endpoint] >>

nonNegativeFields(cfg) ==
    << [path |-> "spec.exporters.otlphttp.read_buffer_size", value |-> cfg.otlphttp.read_buffer_size],
       [path |-> "spec.exporters.otlphttp.write_buffer_size", value |-> cfg.otlphttp.write_buffer_size] >>

resourceRefs(cfg) ==
    << [path |-> "spec.exporters.otlphttp.token", ref |-> cfg.otlphttp.token],
       [path |-> "spec.exporters.otlphttp.tls.ca", ref |-> cfg.otlphttp.tls.ca],
       [path |-> "spec.exporters.otlphttp.tls.cert", ref |-> cfg.otlphttp.tls.cert],
       [path |-> "spec.exporters.otlphttp.tls.key", ref |-> cfg.otlphttp.tls.key] >>

\* the errors Validate would collect if an exporter whose flag is set to false
\* counted as enabled
ValidateErrsFlagSet(cfg) ==
    LET anyExporterEnabled == cfg.debug.enabled # Nil \/ cfg.otlphttp.enabled # Nil
        uf == urlFields(cfg)
        nf == nonNegativeFields(cfg)
        rf == resourceRefs(cfg)
    IN  (IF ~anyExporterEnabled
         THEN <<FieldRequired("spec.exporters", "no exporter enabled")>>
         ELSE <<>>)
        \o SelectErrs([i \in 1..Len(uf) |-> FieldInvalid(uf[i].path, "invalid URL specified")],
                      [i \in 1..Len(uf) |-> uf[i].value # EmptyString /\ urlParseFails(uf[i].value)])
        \o SelectErrs([i \in 1..Len(nf) |-> FieldInvalid(nf[i].path, "value cannot be negative")],
                      [i \in 1..Len(nf) |-> nf[i].value < 0])
        \o SelectErrs([i \in 1..Len(rf) |-> FieldInvalid(rf[i].path, "name or dataKey is empty")],
                      [i \in 1..Len(rf) |->
                          /\ rf[i].ref # Nil
                          /\ (rf[i].ref[1].name = "" \/ rf[i].ref[1].dataKey = "")])

\* the errors Validate would return if it stopped at the first rule that fails
ValidateErrsFirstOnly(cfg) ==
    LET anyExporterEnabled == IsEnabled(cfg.debug) \/ IsEnabled(cfg.otlphttp)
        uf == urlFields(cfg)
        nf == nonNegativeFields(cfg)
        rf == resourceRefs(cfg)
        urlErrs == SelectErrs([i \in 1..Len(uf) |-> FieldInvalid(uf[i].path, "invalid URL specified")],
                              [i \in 1..Len(uf) |-> uf[i].value # EmptyString /\ urlParseFails(uf[i].value)])
        sizeErrs == SelectErrs([i \in 1..Len(nf) |-> FieldInvalid(nf[i].path, "value cannot be negative")],
                               [i \in 1..Len(nf) |-> nf[i].value < 0])
        refErrs == SelectErrs([i \in 1..Len(rf) |-> FieldInvalid(rf[i].path, "name or dataKey is empty")],
                              [i \in 1..Len(rf) |->
                                  /\ rf[i].ref # Nil
                                  /\ (rf[i].ref[1].name = "" \/ rf[i].ref[1].dataKey = "")])
    IN  IF ~anyExporterEnabled
        THEN <<FieldRequired("spec.exporters", "no exporter enabled")>>
        ELSE IF urlErrs # <<>> THEN <<urlErrs[1]>>
        ELSE IF sizeErrs # <<>> THEN <<sizeErrs[1]>>
        ELSE IF refErrs # <<>> THEN <<refErrs[1]>>
        ELSE <<>>

\* the errors Validate would collect if a reference were checked for its name only
ValidateErrsRefNameOnly(cfg) ==
    LET anyExporterEnabled == IsEnabled(cfg.debug) \/ IsEnabled(cfg.otlphttp)
        uf == urlFields(cfg)
        nf == nonNegativeFields(cfg)
        rf == resourceRefs(cfg)
    IN  (IF ~anyExporterEnabled
         THEN <<FieldRequired("spec.exporters", "no exporter enabled")>>
         ELSE <<>>)
        \o SelectErrs([i \in 1..Len(uf) |-> FieldInvalid(uf[i].path, "invalid URL specified")],
                      [i \in 1..Len(uf) |-> uf[i].value # EmptyString /\ urlParseFails(uf[i].value)])
        \o SelectErrs([i \in 1..Len(nf) |-> FieldInvalid(nf[i].path, "value cannot be negative")],
                      [i \in 1..Len(nf) |-> nf[i].value < 0])
        \o SelectErrs([i \in 1..Len(rf) |-> FieldInvalid(rf[i].path, "name or dataKey is empty")],
                      [i \in 1..Len(rf) |->
                          /\ rf[i].ref # Nil
                          /\ rf[i].ref[1].name = ""])

\* the errors Validate would collect if only the base endpoint were parsed
ValidateErrsBaseEndpointOnly(cfg) ==
    LET anyExporterEnabled == IsEnabled(cfg.debug) \/ IsEnabled(cfg.otlphttp)
        uf == urlFields(cfg)
        nf == nonNegativeFields(cfg)
        rf == resourceRefs(cfg)
    IN  (IF ~anyExporterEnabled
         THEN <<FieldRequired("spec.exporters", "no exporter enabled")>>
         ELSE <<>>)
        \o SelectErrs([i \in 1..Len(uf) |-> FieldInvalid(uf[i].path, "invalid URL specified")],
                      [i \in 1..Len(uf) |-> i = 1 /\ uf[i].value # EmptyString /\ urlParseFails(uf[i].value)])
        \o SelectErrs([i \in 1..Len(nf) |-> FieldInvalid(nf[i].path, "value cannot be negative")],
                      [i \in 1..Len(nf) |-> nf[i].value < 0])
        \o SelectErrs([i \in 1..Len(rf) |-> FieldInvalid(rf[i].path, "name or dataKey is empty")],
                      [i \in 1..Len(rf) |->
                          /\ rf[i].ref # Nil
                          /\ (rf[i].ref[1].name = "" \/ rf[i].ref[1].dataKey = "")])

\* the errors Validate would collect if the fields of the OTLP HTTP exporter
\* were checked only when that exporter is enabled
ValidateErrsOnlyEnabledOtlp(cfg) ==
    LET anyExporterEnabled == IsEnabled(cfg.debug) \/ IsEnabled(cfg.otlphttp)
        uf == urlFields(cfg)
        nf == nonNegativeFields(cfg)
        rf == resourceRefs(cfg)
    IN  (IF ~anyExporterEnabled
         THEN <<FieldRequired("spec.exporters", "no exporter enabled")>>
         ELSE <<>>)
        \o SelectErrs([i \in 1..Len(uf) |-> FieldInvalid(uf[i].path, "invalid URL specified")],
                      [i \in 1..Len(uf) |-> IsEnabled(cfg.otlphttp) /\ uf[i].value # EmptyString /\ urlParseFails(uf[i].value)])
        \o SelectErrs([i \in 1..Len(nf) |-> FieldInvalid(nf[i].path, "value cannot be negative")],
                      [i \in 1..Len(nf) |-> IsEnabled(cfg.otlphttp) /\ nf[i].value < 0])
        \o SelectErrs([i \in 1..Len(rf) |-> FieldInvalid(rf[i].path, "name or dataKey is empty")],
                      [i \in 1..Len(rf) |->
                          /\ IsEnabled(cfg.otlphttp)
                          /\ rf[i].ref # Nil
                          /\ (rf[i].ref[1].name = "" \/ rf[i].ref[1].dataKey = "")])

\* the field errors Validate collects, in the order it appends them
ValidateErrs(cfg) ==
    LET anyExporterEnabled == IsEnabled(cfg.debug) \/ IsEnabled(cfg.otlphttp)
        uf == urlFields(cfg)
        nf == nonNegativeFields(cfg)
        rf == resourceRefs(cfg)
    IN  (IF ~anyExporterEnabled
         THEN <<FieldRequired("spec.exporters", "no exporter enabled")>>
         ELSE <<>>)
        \o SelectErrs([i \in 1..Len(uf) |-> FieldInvalid(uf[i].path, "invalid URL specified")],
                      [i \in 1..Len(uf) |-> uf[i].value # EmptyString /\ urlParseFails(uf[i].value)])
        \o SelectErrs([i \in 1..Len(nf) |-> FieldInvalid(nf[i].path, "value cannot be negative")],
                      [i \in 1..Len(nf) |-> nf[i].value < 0])
        \o SelectErrs([i \in 1..Len(rf) |-> FieldInvalid(rf[i].path, "name or dataKey is empty")],
                      [i \in 1..Len(rf) |->
                          /\ rf[i].ref # Nil
                          /\ (rf[i].ref[1].name = "" \/ rf[i].ref[1].dataKey = "")])

Validate(cfg) == ToAggregate(ValidateErrs(cfg))

(***************************************************************************)
(* Provider config payloads and runtime.DecodeInto                         *)
(***************************************************************************)
CollectorConfigGVK == "otelcol.extensions.gardener.cloud/v1alpha1, Kind=CollectorConfig"

\* A raw payload: whether its bytes are well-formed JSON/YAML, the
\* group-version-kind it declares, whether it carries a field the type
\* does not have, and the configuration its fields spell out.
RawPayload(wellFormed, gvk, unknownField, cfg) ==
    [wellFormed |-> wellFormed, gvk |-> gvk, unknownField |-> unknownField, cfg |-> cfg]

\* runtime.DecodeInto with the strict universal decoder of the scheme:
\* [err, cfg]; on failure cfg keeps its zero value
DecodeInto(raw) ==
    IF ~raw.wellFormed
    THEN [err |-> NewError(<<"couldn't get version/kind; json parse error">>), cfg |-> ZeroConfig]
    ELSE IF raw.gvk # CollectorConfigGVK
    THEN [err |-> NewError(<<"no kind is registered for the type">>), cfg |-> ZeroConfig]
    ELSE IF raw.unknownField
    THEN [err |-> NewError(<<"strict decoding error: unknown field">>), cfg |-> ZeroConfig]
    ELSE [err |-> NoError, cfg |-> raw.cfg]

\* Sample configurations
CfgDebugOnly == [ZeroConfig EXCEPT !.debug.enabled = Ptr(TRUE)]
CfgNoExporters == ZeroConfig
CfgOtlpGood == [ZeroConfig EXCEPT !.otlphttp.enabled = Ptr(TRUE),
                                  !.otlphttp.endpoint = UrlGood,
                                  !.otlphttp.token = Ref("tok", "key")]
CfgOtlpTwoDefects == [ZeroConfig EXCEPT !.otlphttp.enabled = Ptr(TRUE),
                                        !.otlphttp.endpoint = UrlNoScheme,
                                        !.otlphttp.read_buffer_size = -1]

\* every rule of Validate violated at once
CfgAllDefects ==
    [debug |-> [enabled |-> Ptr(FALSE)],
     otlphttp |-> [enabled |-> Nil,
                   endpoint |-> UrlNoScheme,
                   traces_endpoint |-> UrlBadPort,
                   metrics_endpoint |-> UrlBadEscape,
                   logs_endpoint |-> UrlNoScheme,
                   profiles_endpoint |-> UrlNoScheme,
                   read_buffer_size |-> -1,
                   write_buffer_size |-> -1,
                   token |-> Ref("", "key"),
                   tls |-> [ca |-> Ref("ca", ""), cert |-> Ref("", ""), key |-> Ref("", "key")]]]

\* the configs the enumeration of inputs starts from
BaseConfigs == {ZeroConfig, CfgOtlpGood, CfgAllDefects}

EnabledValues == {Nil, Ptr(FALSE), Ptr(TRUE)}
EndpointValues == {EmptyString, UrlGood, UrlNotAUrl, UrlNoScheme, UrlBadPort}
SignalEndpointValues == {EmptyString, UrlGood, UrlNoScheme}
BufferSizeValues == {-1, 0, 4096}
ReferenceValues == {Nil, Ref("", "key"), Ref("name", ""), Ref("name", "key")}

\* the configs of set and those one field assignment away from them
Grow(set) ==
    set
    \cup {[c EXCEPT !.debug.enabled = v] : c \in set, v \in EnabledValues}
    \cup {[c EXCEPT !.otlphttp.enabled = v] : c \in set, v \in EnabledValues}
    \cup {[c EXCEPT !.otlphttp.endpoint = v] : c \in set, v \in EndpointValues}
    \cup {[c EXCEPT !.otlphttp.traces_endpoint = v] : c \in set, v \in SignalEndpointValues}
    \cup {[c EXCEPT !.otlphttp.metrics_endpoint = v] : c \in set, v \in SignalEndpointValues}
    \cup {[c EXCEPT !.otlphttp.logs_endpoint = v] : c \in set, v \in SignalEndpointValues}
    \cup {[c EXCEPT !.otlphttp.profiles_endpoint = v] : c \in set, v \in SignalEndpointValues}
    \cup {[c EXCEPT !.otlphttp.read_buffer_size = v] : c \in set, v \in BufferSizeValues}
    \cup {[c EXCEPT !.otlphttp.write_buffer_size = v] : c \in set, v \in BufferSizeValues}
    \cup {[c EXCEPT !.otlphttp.token = v] : c \in set, v \in ReferenceValues}
    \cup {[c EXCEPT !.otlphttp.tls.ca = v] : c \in set, v \in ReferenceValues}
    \cup {[c EXCEPT !.otlphttp.tls.cert = v] : c \in set, v \in ReferenceValues}
    \cup {[c EXCEPT !.otlphttp.tls.key = v] : c \in set, v \in ReferenceValues}

\* the configs at most n field assignments away from a base config
RECURSIVE ConfigsWithin(_)
ConfigsWithin(n) == IF n = 0 THEN BaseConfigs ELSE Grow(ConfigsWithin(n - 1))

\* Sample payloads of Extension.Spec.ProviderConfig (a *runtime.RawExtension)
PayloadValid == RawPayload(TRUE, CollectorConfigGVK, FALSE, CfgDebugOnly)
PayloadValidOtlp == RawPayload(TRUE, CollectorConfigGVK, FALSE, CfgOtlpGood)
PayloadNoExporters == RawPayload(TRUE, CollectorConfigGVK, FALSE, CfgNoExporters)
PayloadTwoDefects == RawPayload(TRUE, CollectorConfigGVK, FALSE, CfgOtlpTwoDefects)
PayloadGarbage == RawPayload(FALSE, "", FALSE, ZeroConfig)
PayloadUnknownKind == RawPayload(TRUE, "v1, Kind=ConfigMap", FALSE, CfgDebugOnly)

\* the provider configs a trigger is invoked with: nil or a payload
ProviderConfigs ==
    {Nil, Ptr(PayloadValid), Ptr(PayloadValidOtlp), Ptr(PayloadNoExporters), Ptr(PayloadGarbage)}

(***************************************************************************)
(* The managed resource bundle and its store (gardener managedresources)   *)
(***************************************************************************)
GateMaps ==
    {<<>>} \cup {[f \in {OpenTelemetryCollector} |-> b] : b \in BOOLEAN}

\* what extensionscontroller.GetCluster answers: an error, or a Cluster
\* whose shoot is awake or hibernated
ClusterAnswers == {"error", "awake", "hibernated"}

\* how the API server answers the bundle call of a pass
BundlerAnswers == {"ok", "notfound", "error"}

getTargetAllocatorServiceAccount(namespace) ==
    [kind |-> "ServiceAccount", name |-> targetAllocatorServiceAccountName,
     namespace |-> namespace, refs |-> <<>>]

getTargetAllocatorRole(namespace) ==
    [kind |-> "Role", name |-> targetAllocatorRoleName,
     namespace |-> namespace, refs |-> <<>>]

getTargetAllocatorRoleBinding(namespace) ==
    [kind |-> "RoleBinding", name |-> targetAllocatorRoleName,
     namespace |-> namespace,
     refs |-> <<targetAllocatorRoleName, targetAllocatorServiceAccountName, namespace>>]

getTargetAllocator(namespace) ==
    [kind |-> "TargetAllocator", name |-> targetAllocatorName,
     namespace |-> namespace,
     refs |-> <<targetAllocatorServiceAccountName, namespace>>]

\* registry.AddAllAndSerialize of the four objects Reconcile passes
AddAllAndSerialize(namespace) ==
    << getTargetAllocatorServiceAccount(namespace),
       getTargetAllocatorRole(namespace),
       getTargetAllocatorRoleBinding(namespace),
       getTargetAllocator(namespace) >>

ApplyCall(namespace, name, keepObjects, data) ==
    [op |-> "apply", namespace |-> namespace, name |-> name,
     keepObjects |-> keepObjects, data |-> data]

RemoveCall(namespace, name) ==
    [op |-> "remove", namespace |-> namespace, name |-> name,
     keepObjects |-> FALSE, data |-> <<>>]

\* managedresources.CreateForSeed: create or update the named managed
\* resource of the namespace as one unit. cur is the stored bundle (Nil
\* when absent). [err, bundle]
CreateForSeed(cur, namespace, name, keepObjects, data, answer) ==
    CASE answer = "ok" ->
            [err |-> NoError,
             bundle |-> Ptr([name |-> name, keepObjects |-> keepObjects, data |-> data])]
      [] answer = "notfound" -> [err |-> NotFoundError, bundle |-> cur]
      [] OTHER -> [err |-> TransientError, bundle |-> cur]

\* managedresources.DeleteForSeed: delete the named managed resource. An
\* absent resource is answered with nil or with NotFound.
DeleteForSeed(cur, namespace, name, answer) ==
    CASE answer = "error" -> [err |-> TransientError, bundle |-> cur]
      [] answer = "notfound" /\ cur = Nil -> [err |-> NotFoundError, bundle |-> Nil]
      [] OTHER -> [err |-> NoError, bundle |-> Nil]

(***************************************************************************)
(* The actuator's triggers. gates is a.gardenletFeatureGates, ex the       *)
(* Extension resource [namespace, providerConfig], env the answers of the  *)
(* API server to this pass [cluster, answer], cur the stored bundle of     *)
(* ex.namespace. Result: the returned error, the bundle calls issued with  *)
(* the errors they returned, the stored bundle afterwards and the counter  *)
(* labels incremented, in order.                                           *)
(***************************************************************************)
Outcome(err, calls, replies, bundle, incs) ==
    [err |-> err, calls |-> calls, replies |-> replies, bundle |-> bundle, incs |-> incs]

\* the outcome o of the wrapped call, with the deferred increment of the
\* caller's own counter label after it
Deferred(o, label) == [o EXCEPT !.incs = @ \o <<label>>]

\* Delete as it would be with the bundler's error returned as it is
DeleteReturnsNotFound(gates, ex, env, cur) ==
    LET r == DeleteForSeed(cur, ex.namespace, managedResourceName, env.answer)
    IN  Outcome(r.err,
                <<RemoveCall(ex.namespace, managedResourceName)>>,
                <<r.err>>,
                r.bundle,
                <<"delete">>)

Delete(gates, ex, env, cur) ==
    LET r == DeleteForSeed(cur, ex.namespace, managedResourceName, env.answer)
    IN  Outcome(IgnoreNotFound(r.err),
                <<RemoveCall(ex.namespace, managedResourceName)>>,
                <<r.err>>,
                r.bundle,
                <<"delete">>)

\* Reconcile as it would be if a hibernated cluster had its bundle torn down
ReconcileHibernatedTearsDown(gates, ex, env, cur) ==
    LET ok == OpenTelemetryCollector \in DOMAIN gates
        otelcolFeature == IF ok THEN gates[OpenTelemetryCollector] ELSE FALSE
        decoded == DecodeInto(ex.providerConfig[1])
        verr == Validate(decoded.cfg)
        data == AddAllAndSerialize(ex.namespace)
        r == CreateForSeed(cur, ex.namespace, managedResourceName, FALSE, data, env.answer)
        incs == <<"reconcile">>
    IN  IF ~ok \/ ~otelcolFeature
        THEN Delete(gates, ex, env, cur)
        ELSE IF env.cluster = "error"
        THEN Outcome(WrapError(<<"failed to get cluster">>, TransientError),
                     <<>>, <<>>, cur, incs)
        ELSE IF env.cluster = "hibernated"
        THEN Deferred(Delete(gates, ex, env, cur), "reconcile")
        ELSE IF ex.providerConfig = Nil
        THEN Outcome(NewError(<<"no provider config specified">>), <<>>, <<>>, cur, incs)
        ELSE IF decoded.err # NoError
        THEN Outcome(WrapError(<<"invalid provider spec configuration">>, decoded.err),
                     <<>>, <<>>, cur, incs)
        ELSE IF verr # NoError
        THEN Outcome(verr, <<>>, <<>>, cur, incs)
        ELSE Outcome(r.err,
                     <<ApplyCall(ex.namespace, managedResourceName, FALSE, data)>>,
                     <<r.err>>,
                     r.bundle,
                     incs)

\* Reconcile as it would be if a gate missing from the map counted as enabled
ReconcileMissingGateProceeds(gates, ex, env, cur) ==
    LET ok == OpenTelemetryCollector \in DOMAIN gates
        otelcolFeature == IF ok THEN gates[OpenTelemetryCollector] ELSE FALSE
        decoded == DecodeInto(ex.providerConfig[1])
        verr == Validate(decoded.cfg)
        data == AddAllAndSerialize(ex.namespace)
        r == CreateForSeed(cur, ex.namespace, managedResourceName, FALSE, data, env.answer)
        incs == <<"reconcile">>
    IN  IF ok /\ ~otelcolFeature
        THEN Delete(gates, ex, env, cur)
        ELSE IF env.cluster = "error"
        THEN Outcome(WrapError(<<"failed to get cluster">>, TransientError),
                     <<>>, <<>>, cur, incs)
        ELSE IF env.cluster = "hibernated"
        THEN Outcome(NoError, <<>>, <<>>, cur, incs)
        ELSE IF ex.providerConfig = Nil
        THEN Outcome(NewError(<<"no provider config specified">>), <<>>, <<>>, cur, incs)
        ELSE IF decoded.err # NoError
        THEN Outcome(WrapError(<<"invalid provider spec configuration">>, decoded.err),
                     <<>>, <<>>, cur, incs)
        ELSE IF verr # NoError
        THEN Outcome(verr, <<>>, <<>>, cur, incs)
        ELSE Outcome(r.err,
                     <<ApplyCall(ex.namespace, managedResourceName, FALSE, data)>>,
                     <<r.err>>,
                     r.bundle,
                     incs)

\* Reconcile as it would be if it created the bundle and never updated it
ReconcileCreatesOnly(gates, ex, env, cur) ==
    LET ok == OpenTelemetryCollector \in DOMAIN gates
        otelcolFeature == IF ok THEN gates[OpenTelemetryCollector] ELSE FALSE
        decoded == DecodeInto(ex.providerConfig[1])
        verr == Validate(decoded.cfg)
        data == AddAllAndSerialize(ex.namespace)
        r == IF cur # Nil
             THEN [err |-> NewError(<<"AlreadyExists">>), bundle |-> cur]
             ELSE CreateForSeed(cur, ex.namespace, managedResourceName, FALSE, data, env.answer)
        incs == <<"reconcile">>
    IN  IF ~ok \/ ~otelcolFeature
        THEN Delete(gates, ex, env, cur)
        ELSE IF env.cluster = "error"
        THEN Outcome(WrapError(<<"failed to get cluster">>, TransientError),
                     <<>>, <<>>, cur, incs)
        ELSE IF env.cluster = "hibernated"
        THEN Outcome(NoError, <<>>, <<>>, cur, incs)
        ELSE IF ex.providerConfig = Nil
        THEN Outcome(NewError(<<"no provider config specified">>), <<>>, <<>>, cur, incs)
        ELSE IF decoded.err # NoError
        THEN Outcome(WrapError(<<"invalid provider spec configuration">>, decoded.err),
                     <<>>, <<>>, cur, incs)
        ELSE IF verr # NoError
        THEN Outcome(verr, <<>>, <<>>, cur, incs)
        ELSE Outcome(r.err,
                     <<ApplyCall(ex.namespace, managedResourceName, FALSE, data)>>,
                     <<r.err>>,
                     r.bundle,
                     incs)

\* Reconcile as it would be if a validation error did not stop the pass
ReconcileAppliesInvalid(gates, ex, env, cur) ==
    LET ok == OpenTelemetryCollector \in DOMAIN gates
        otelcolFeature == IF ok THEN gates[OpenTelemetryCollector] ELSE FALSE
        decoded == DecodeInto(ex.providerConfig[1])
        verr == Validate(decoded.cfg)
        data == AddAllAndSerialize(ex.namespace)
        r == CreateForSeed(cur, ex.namespace, managedResourceName, FALSE, data, env.answer)
        incs == <<"reconcile">>
    IN  IF ~ok \/ ~otelcolFeature
        THEN Delete(gates, ex, env, cur)
        ELSE IF env.cluster = "error"
        THEN Outcome(WrapError(<<"failed to get cluster">>, TransientError),
                     <<>>, <<>>, cur, incs)
        ELSE IF env.cluster = "hibernated"
        THEN Outcome(NoError, <<>>, <<>>, cur, incs)
        ELSE IF ex.providerConfig = Nil
        THEN Outcome(NewError(<<"no provider config specified">>), <<>>, <<>>, cur, incs)
        ELSE IF decoded.err # NoError
        THEN Outcome(WrapError(<<"invalid provider spec configuration">>, decoded.err),
                     <<>>, <<>>, cur, incs)
        ELSE Outcome(r.err,
                     <<ApplyCall(ex.namespace, managedResourceName, FALSE, data)>>,
                     <<r.err>>,
                     r.bundle,
                     incs)

\* Reconcile as it would be if the decoder's error were formatted into the
\* message instead of wrapped
ReconcileDropsDecodeCause(gates, ex, env, cur) ==
    LET ok == OpenTelemetryCollector \in DOMAIN gates
        otelcolFeature == IF ok THEN gates[OpenTelemetryCollector] ELSE FALSE
        decoded == DecodeInto(ex.providerConfig[1])
        verr == Validate(decoded.cfg)
        data == AddAllAndSerialize(ex.namespace)
        r == CreateForSeed(cur, ex.namespace, managedResourceName, FALSE, data, env.answer)
        incs == <<"reconcile">>
    IN  IF ~ok \/ ~otelcolFeature
        THEN Delete(gates, ex, env, cur)
        ELSE IF env.cluster = "error"
        THEN Outcome(WrapError(<<"failed to get cluster">>, TransientError),
                     <<>>, <<>>, cur, incs)
        ELSE IF env.cluster = "hibernated"
        THEN Outcome(NoError, <<>>, <<>>, cur, incs)
        ELSE IF ex.providerConfig = Nil
        THEN Outcome(NewError(<<"no provider config specified">>), <<>>, <<>>, cur, incs)
        ELSE IF decoded.err # NoError
        THEN Outcome(NewError(<<"invalid provider spec configuration">> \o decoded.err[1].text),
                     <<>>, <<>>, cur, incs)
        ELSE IF verr # NoError
        THEN Outcome(verr, <<>>, <<>>, cur, incs)
        ELSE Outcome(r.err,
                     <<ApplyCall(ex.namespace, managedResourceName, FALSE, data)>>,
                     <<r.err>>,
                     r.bundle,
                     incs)

\* Reconcile as it would be if the gate-off path returned the bundler's error
\* as it is
ReconcileGateOffKeepsNotFound(gates, ex, env, cur) ==
    LET ok == OpenTelemetryCollector \in DOMAIN gates
        otelcolFeature == IF ok THEN gates[OpenTelemetryCollector] ELSE FALSE
        decoded == DecodeInto(ex.providerConfig[1])
        verr == Validate(decoded.cfg)
        data == AddAllAndSerialize(ex.namespace)
        r == CreateForSeed(cur, ex.namespace, managedResourceName, FALSE, data, env.answer)
        incs == <<"reconcile">>
    IN  IF ~ok \/ ~otelcolFeature
        THEN DeleteReturnsNotFound(gates, ex, env, cur)
        ELSE IF env.cluster = "error"
        THEN Outcome(WrapError(<<"failed to get cluster">>, TransientError),
                     <<>>, <<>>, cur, incs)
        ELSE IF env.cluster = "hibernated"
        THEN Outcome(NoError, <<>>, <<>>, cur, incs)
        ELSE IF ex.providerConfig = Nil
        THEN Outcome(NewError(<<"no provider config specified">>), <<>>, <<>>, cur, incs)
        ELSE IF decoded.err # NoError
        THEN Outcome(WrapError(<<"invalid provider spec configuration">>, decoded.err),
                     <<>>, <<>>, cur, incs)
        ELSE IF verr # NoError
        THEN Outcome(verr, <<>>, <<>>, cur, incs)
        ELSE Outcome(r.err,
                     <<ApplyCall(ex.namespace, managedResourceName, FALSE, data)>>,
                     <<r.err>>,
                     r.bundle,
                     incs)

\* Reconcile as it would be if an absent providerConfig were reported as an
\* extension that is not found
ReconcileNilConfigNotFound(gates, ex, env, cur) ==
    LET ok == OpenTelemetryCollector \in DOMAIN gates
        otelcolFeature == IF ok THEN gates[OpenTelemetryCollector] ELSE FALSE
        decoded == DecodeInto(ex.providerConfig[1])
        verr == Validate(decoded.cfg)
        data == AddAllAndSerialize(ex.namespace)
        r == CreateForSeed(cur, ex.namespace, managedResourceName, FALSE, data, env.answer)
        incs == <<"reconcile">>
    IN  IF ~ok \/ ~otelcolFeature
        THEN Delete(gates, ex, env, cur)
        ELSE IF env.cluster = "error"
        THEN Outcome(WrapError(<<"failed to get cluster">>, TransientError),
                     <<>>, <<>>, cur, incs)
        ELSE IF env.cluster = "hibernated"
        THEN Outcome(NoError, <<>>, <<>>, cur, incs)
        ELSE IF ex.providerConfig = Nil
        THEN Outcome(WrapError(<<"no provider config specified">>, ErrExtensionNotFound),
                     <<>>, <<>>, cur, incs)
        ELSE IF decoded.err # NoError
        THEN Outcome(WrapError(<<"invalid provider spec configuration">>, decoded.err),
                     <<>>, <<>>, cur, incs)
        ELSE IF verr # NoError
        THEN Outcome(verr, <<>>, <<>>, cur, incs)
        ELSE Outcome(r.err,
                     <<ApplyCall(ex.namespace, managedResourceName, FALSE, data)>>,
                     <<r.err>>,
                     r.bundle,
                     incs)

\* Reconcile as it would be if the error of the bundle submission were dropped
ReconcileSwallowsApplyError(gates, ex, env, cur) ==
    LET ok == OpenTelemetryCollector \in DOMAIN gates
        otelcolFeature == IF ok THEN gates[OpenTelemetryCollector] ELSE FALSE
        decoded == DecodeInto(ex.providerConfig[1])
        verr == Validate(decoded.cfg)
        data == AddAllAndSerialize(ex.namespace)
        r == CreateForSeed(cur, ex.namespace, managedResourceName, FALSE, data, env.answer)
        incs == <<"reconcile">>
    IN  IF ~ok \/ ~otelcolFeature
        THEN Delete(gates, ex, env, cur)
        ELSE IF env.cluster = "error"
        THEN Outcome(WrapError(<<"failed to get cluster">>, TransientError),
                     <<>>, <<>>, cur, incs)
        ELSE IF env.cluster = "hibernated"
        THEN Outcome(NoError, <<>>, <<>>, cur, incs)
        ELSE IF ex.providerConfig = Nil
        THEN Outcome(NewError(<<"no provider config specified">>), <<>>, <<>>, cur, incs)
        ELSE IF decoded.err # NoError
        THEN Outcome(WrapError(<<"invalid provider spec configuration">>, decoded.err),
                     <<>>, <<>>, cur, incs)
        ELSE IF verr # NoError
        THEN Outcome(verr, <<>>, <<>>, cur, incs)
        ELSE Outcome(NoError,
                     <<ApplyCall(ex.namespace, managedResourceName, FALSE, data)>>,
                     <<r.err>>,
                     r.bundle,
                     incs)

\* Reconcile as it would be if the bundle held an object rendered from the
\* decoded configuration
ReconcileRendersConfig(gates, ex, env, cur) ==
    LET ok == OpenTelemetryCollector \in DOMAIN gates
        otelcolFeature == IF ok THEN gates[OpenTelemetryCollector] ELSE FALSE
        decoded == DecodeInto(ex.providerConfig[1])
        verr == Validate(decoded.cfg)
        data == AddAllAndSerialize(ex.namespace)
                    \o <<[kind |-> "OpenTelemetryCollector", name |-> managedResourceName,
                          namespace |-> ex.namespace,
                          refs |-> <<IF IsEnabled(decoded.cfg.otlphttp) THEN "otlphttp" ELSE "debug">>]>>
        r == CreateForSeed(cur, ex.namespace, managedResourceName, FALSE, data, env.answer)
        incs == <<"reconcile">>
    IN  IF ~ok \/ ~otelcolFeature
        THEN Delete(gates, ex, env, cur)
        ELSE IF env.cluster = "error"
        THEN Outcome(WrapError(<<"failed to get cluster">>, TransientError),
                     <<>>, <<>>, cur, incs)
        ELSE IF env.cluster = "hibernated"
        THEN Outcome(NoError, <<>>, <<>>, cur, incs)
        ELSE IF ex.providerConfig = Nil
        THEN Outcome(NewError(<<"no provider config specified">>), <<>>, <<>>, cur, incs)
        ELSE IF decoded.err # NoError
        THEN Outcome(WrapError(<<"invalid provider spec configuration">>, decoded.err),
                     <<>>, <<>>, cur, incs)
        ELSE IF verr # NoError
        THEN Outcome(verr, <<>>, <<>>, cur, incs)
        ELSE Outcome(r.err,
                     <<ApplyCall(ex.namespace, managedResourceName, FALSE, data)>>,
                     <<r.err>>,
                     r.bundle,
                     incs)

Reconcile(gates, ex, env, cur) ==
    LET ok == OpenTelemetryCollector \in DOMAIN gates
        otelcolFeature == IF ok THEN gates[OpenTelemetryCollector] ELSE FALSE
        decoded == DecodeInto(ex.providerConfig[1])
        verr == Validate(decoded.cfg)
        data == AddAllAndSerialize(ex.namespace)
        r == CreateForSeed(cur, ex.namespace, managedResourceName, FALSE, data, env.answer)
        incs == <<"reconcile">>
    IN  IF ~ok \/ ~otelcolFeature
        THEN Delete(gates, ex, env, cur)
        ELSE IF env.cluster = "error"
        THEN Outcome(WrapError(<<"failed to get cluster">>, TransientError),
                     <<>>, <<>>, cur, incs)
        ELSE IF env.cluster = "hibernated"
        THEN Outcome(NoError, <<>>, <<>>, cur, incs)
        ELSE IF ex.providerConfig = Nil
        THEN Outcome(NewError(<<"no provider config specified">>), <<>>, <<>>, cur, incs)
        ELSE IF decoded.err # NoError
        THEN Outcome(WrapError(<<"invalid provider spec configuration">>, decoded.err),
                     <<>>, <<>>, cur, incs)
        ELSE IF verr # NoError
        THEN Outcome(verr, <<>>, <<>>, cur, incs)
        ELSE Outcome(r.err,
                     <<ApplyCall(ex.namespace, managedResourceName, FALSE, data)>>,
                     <<r.err>>,
                     r.bundle,
                     incs)

ForceDelete(gates, ex, env, cur) ==
    Deferred(Delete(gates, ex, env, cur), "force_delete")

Restore(gates, ex, env, cur) ==
    Deferred(Reconcile(gates, ex, env, cur), "restore")

\* Migrate as it would be if a migration removed the bundle
MigrateTearsDown(gates, ex, env, cur) ==
    Deferred(Delete(gates, ex, env, cur), "migrate")

Migrate(gates, ex, env, cur) ==
    Deferred(Reconcile(gates, ex, env, cur), "migrate")

(***************************************************************************)
(* The admission validator (shootValidator)                                *)
(***************************************************************************)
\* errors.Is(err, ErrExtensionNotFound)
IsExtensionNotFound(err) == \E i \in 1..Len(err) : err[i] = ErrExtensionNotFound[1]

\* IgnoreExtensionNotFound as it would be if err were compared with the
\* variable itself and not unwrapped
IgnoreExtensionNotFoundDirect(err) == IF err = ErrExtensionNotFound THEN NoError ELSE err

IgnoreExtensionNotFound(err) == IF IsExtensionNotFound(err) THEN NoError ELSE err

\* newShootValidator as it would be if the decoder were not checked
newShootValidatorUnchecked(decoder) ==
    [validator |-> Ptr([decoder |-> decoder, extensionType |-> ExtensionType]),
     err |-> NoError]

\* newShootValidator: [validator, err]; decoder is Nil or a decoder
newShootValidator(decoder) ==
    IF decoder = Nil
    THEN [validator |-> Nil,
          err |-> NewError(<<"invalid decoder specified", "for shoot validator", ExtensionType>>)]
    ELSE [validator |-> Ptr([decoder |-> decoder, extensionType |-> ExtensionType]),
          err |-> NoError]

\* getExtension: [ext, err]; obj is a *core.Shoot
getExtension(v, obj) ==
    LET exts == obj[1].extensions
        hits == {i \in 1..Len(exts) : exts[i].type = v.extensionType}
        idx == IF hits = {} THEN -1 ELSE CHOOSE i \in hits : \A j \in hits : i <= j
    IN  IF obj = Nil
        THEN [ext |-> Nil, err |-> NewError(<<"invalid shoot resource provided">>)]
        ELSE IF idx = -1
        THEN [ext |-> Nil,
              err |-> WrapError(<<v.extensionType>>, ErrExtensionNotFound)]
        ELSE [ext |-> Ptr(exts[idx]), err |-> NoError]

\* validateExtension as it would be if a disabled block were validated too
validateExtensionChecksDisabled(v, newObj, oldObj) ==
    LET got == getExtension(v, newObj)
        ext == got.ext[1]
        decoded == DecodeInto(ext.providerConfig[1])
        verr == Validate(decoded.cfg)
    IN  IF got.err # NoError THEN IgnoreExtensionNotFound(got.err)
        ELSE IF ext.providerConfig = Nil
        THEN NewError(<<"no provider config specified", "for", v.extensionType>>)
        ELSE IF decoded.err # NoError
        THEN WrapError(<<"invalid provider spec configuration", "for", v.extensionType>>,
                       decoded.err)
        ELSE IF verr # NoError
        THEN WrapError(<<"invalid extension configuration", "for", v.extensionType>>, verr)
        ELSE NoError

\* validateExtension as it would be if a missing block were reported
validateExtensionReportsNotFound(v, newObj, oldObj) ==
    LET got == getExtension(v, newObj)
        ext == got.ext[1]
        decoded == DecodeInto(ext.providerConfig[1])
        verr == Validate(decoded.cfg)
    IN  IF got.err # NoError THEN got.err
        ELSE IF ext.disabled # Nil /\ ext.disabled[1] THEN NoError
        ELSE IF ext.providerConfig = Nil
        THEN NewError(<<"no provider config specified", "for", v.extensionType>>)
        ELSE IF decoded.err # NoError
        THEN WrapError(<<"invalid provider spec configuration", "for", v.extensionType>>,
                       decoded.err)
        ELSE IF verr # NoError
        THEN WrapError(<<"invalid extension configuration", "for", v.extensionType>>, verr)
        ELSE NoError

\* validateExtension as it would be if a set Disabled flag counted as disabled
validateExtensionDisabledSet(v, newObj, oldObj) ==
    LET got == getExtension(v, newObj)
        ext == got.ext[1]
        decoded == DecodeInto(ext.providerConfig[1])
        verr == Validate(decoded.cfg)
    IN  IF got.err # NoError THEN IgnoreExtensionNotFound(got.err)
        ELSE IF ext.disabled # Nil THEN NoError
        ELSE IF ext.providerConfig = Nil
        THEN NewError(<<"no provider config specified", "for", v.extensionType>>)
        ELSE IF decoded.err # NoError
        THEN WrapError(<<"invalid provider spec configuration", "for", v.extensionType>>,
                       decoded.err)
        ELSE IF verr # NoError
        THEN WrapError(<<"invalid extension configuration", "for", v.extensionType>>, verr)
        ELSE NoError

\* validateExtension as it would be if a payload that does not decode were
\* reported with the text of a validation failure
validateExtensionOneMessage(v, newObj, oldObj) ==
    LET got == getExtension(v, newObj)
        ext == got.ext[1]
        decoded == DecodeInto(ext.providerConfig[1])
        verr == Validate(decoded.cfg)
    IN  IF got.err # NoError THEN IgnoreExtensionNotFound(got.err)
        ELSE IF ext.disabled # Nil /\ ext.disabled[1] THEN NoError
        ELSE IF ext.providerConfig = Nil
        THEN NewError(<<"no provider config specified", "for", v.extensionType>>)
        ELSE IF decoded.err # NoError
        THEN WrapError(<<"invalid extension configuration", "for", v.extensionType>>,
                       decoded.err)
        ELSE IF verr # NoError
        THEN WrapError(<<"invalid extension configuration", "for", v.extensionType>>, verr)
        ELSE NoError

validateExtension(v, newObj, oldObj) ==
    LET got == getExtension(v, newObj)
        ext == got.ext[1]
        decoded == DecodeInto(ext.providerConfig[1])
        verr == Validate(decoded.cfg)
    IN  IF got.err # NoError THEN IgnoreExtensionNotFound(got.err)
        ELSE IF ext.disabled # Nil /\ ext.disabled[1] THEN NoError
        ELSE IF ext.providerConfig = Nil
        THEN NewError(<<"no provider config specified", "for", v.extensionType>>)
        ELSE IF decoded.err # NoError
        THEN WrapError(<<"invalid provider spec configuration", "for", v.extensionType>>,
                       decoded.err)
        ELSE IF verr # NoError
        THEN WrapError(<<"invalid extension configuration", "for", v.extensionType>>, verr)
        ELSE NoError

\* shootValidator.Validate as it would be if objects being deleted were validated
shootValidatorValidatesDeleted(v, newObj, oldObj) ==
    LET oldShoot == IF oldObj # Nil /\ oldObj[1].type = "Shoot" THEN oldObj ELSE Nil
    IN  IF newObj[1].type # "Shoot"
        THEN NewError(<<"invalid object type", newObj[1].type>>)
        ELSE validateExtension(v, newObj, oldShoot)

\* shootValidator.Validate; an object is [type, deletionTimestamp, extensions]
shootValidatorValidate(v, newObj, oldObj) ==
    LET oldShoot == IF oldObj # Nil /\ oldObj[1].type = "Shoot" THEN oldObj ELSE Nil
    IN  IF newObj[1].type # "Shoot"
        THEN NewError(<<"invalid object type", newObj[1].type>>)
        ELSE IF newObj[1].deletionTimestamp # Nil THEN NoError
        ELSE validateExtension(v, newObj, oldShoot)

(***************************************************************************)
(* State                                                                   *)
(***************************************************************************)
VARIABLES
    gardenletFeatureGates,  \* Actuator.gardenletFeatureGates
    bundle,                 \* the stored managed resource of each namespace, Nil when absent
    metrics,                \* metrics.ActuatorOperationTotal, by <<cluster, operation>>
    last,                   \* the latest pass of this actuator: its inputs and its outcome
    validator,              \* the constructed shootValidator, Nil before construction
    construction,           \* the latest NewShootValidator call: its decoder and its error
    stored,                 \* the object the API server has stored, Nil before creation
    admission,              \* the latest admission call: its new object and its verdict
    candidate,              \* the config.CollectorConfig a caller holds
    validation,             \* the latest validation.Validate call: its config and its error
    given,                  \* the error value a caller holds
    ignored,                \* the latest IgnoreExtensionNotFound call: its error and its result
    inflight,               \* the trigger call that is running for each namespace, Nil when none
    alone,                  \* the bundle of each namespace had its triggers run with no other namespace
    agree,                  \* every finished pass returned what it returns in the run of its namespace alone
    qualified,              \* the namespaces that had a pass with everything an apply needs
    settled,                \* Nil, or the providerConfig the inputs have come to rest with
    queued                  \* the dispatcher owes the resource a Reconcile

vars == <<gardenletFeatureGates, bundle, metrics, last, validator, construction, stored, admission,
          candidate, validation, given, ignored, inflight, alone, agree,
          qualified, settled, queued>>

engineVars == <<gardenletFeatureGates, bundle, metrics, last, qualified>>
admissionVars == <<validator, construction, stored, admission>>
validationVars == <<candidate, validation>>
errorVars == <<given, ignored>>
parallelVars == <<inflight, alone, agree>>
healingVars == <<settled, queued>>

NoPass ==
    [trigger |-> "none", namespace |-> "", gates |-> <<>>, cluster |-> "",
     providerConfig |-> Nil, answer |-> "", before |-> Nil,
     err |-> NoError, calls |-> <<>>, replies |-> <<>>, after |-> Nil,
     counted |-> [k \in TriggerKinds |-> 0],
     repeated |-> Nil]

NoConstruction ==
    [called |-> FALSE, decoder |-> Nil, err |-> NoError]

NoAdmission ==
    [called |-> FALSE, newObj |-> Nil, err |-> NoError]

NoValidation ==
    [called |-> FALSE, cfg |-> ZeroConfig, err |-> NoError]

NoIgnore ==
    [called |-> FALSE, err |-> NoError, result |-> NoError]

RECURSIVE Sum(_, _)
Sum(f, keys) ==
    IF keys = {} THEN 0
    ELSE LET k == CHOOSE k \in keys : TRUE IN f[k] + Sum(f, keys \ {k})

TotalCount == Sum(metrics, DOMAIN metrics)

RECURSIVE IncAll(_, _, _)
\* Counter.Inc for each label of incs, in order
IncAll(m, namespace, incs) ==
    IF incs = <<>> THEN m
    ELSE IncAll([m EXCEPT ![<<namespace, incs[1]>>] = @ + 1], namespace, Tail(incs))

Init ==
    /\ gardenletFeatureGates \in GateMaps
    /\ bundle = [n \in Namespaces |-> Nil]
    /\ metrics = [k \in Namespaces \X TriggerKinds |-> 0]
    /\ last = NoPass
    /\ validator = Nil
    /\ construction = NoConstruction
    /\ stored = Nil
    /\ admission = NoAdmission
    /\ candidate = ZeroConfig
    /\ validation = NoValidation
    /\ given = NoError
    /\ ignored = NoIgnore
    /\ inflight = [n \in Namespaces |-> Nil]
    /\ alone = [n \in Namespaces |-> Nil]
    /\ agree = TRUE
    /\ qualified = {}
    /\ settled = Nil
    /\ queued = FALSE

(***************************************************************************)
(* Engine actions                                                          *)
(***************************************************************************)
\* the pass is a Reconcile, Restore or Migrate that found the feature gate
\* on, the cluster awake and a providerConfig that decodes and validates
Qualifies(kind, gates, ex, env) ==
    /\ kind \in {"reconcile", "restore", "migrate"}
    /\ OpenTelemetryCollector \in DOMAIN gates
    /\ gates[OpenTelemetryCollector]
    /\ env.cluster = "awake"
    /\ ex.providerConfig # Nil
    /\ DecodeInto(ex.providerConfig[1]).err = NoError
    /\ Validate(DecodeInto(ex.providerConfig[1]).cfg) = NoError

\* One pass of a trigger: the controller runtime calls the trigger with
\* the Extension resource; the pass reads the cluster and calls the bundler.
Pass(kind, out, ex, env) ==
    /\ TotalCount + Len(out.incs) <= MaxCount
    /\ qualified' = IF Qualifies(kind, gardenletFeatureGates, ex, env)
                    THEN qualified \cup {ex.namespace} ELSE qualified
    /\ bundle' = [bundle EXCEPT ![ex.namespace] = out.bundle]
    /\ metrics' = IncAll(metrics, ex.namespace, out.incs)
    /\ last' = [trigger |-> kind, namespace |-> ex.namespace,
                gates |-> gardenletFeatureGates, cluster |-> env.cluster,
                providerConfig |-> ex.providerConfig, answer |-> env.answer,
                before |-> bundle[ex.namespace],
                err |-> out.err, calls |-> out.calls, replies |-> out.replies,
                after |-> out.bundle,
                counted |-> [k \in TriggerKinds |->
                                metrics'[<<ex.namespace, k>>] - metrics[<<ex.namespace, k>>]],
                repeated |->
                    IF /\ last.trigger = kind
                       /\ last.namespace = ex.namespace
                       /\ last.gates = gardenletFeatureGates
                       /\ last.cluster = env.cluster
                       /\ last.providerConfig = ex.providerConfig
                       /\ last.answer = env.answer
                    THEN Ptr([err |-> last.err, calls |-> last.calls, after |-> last.after])
                    ELSE Nil]
    /\ UNCHANGED <<gardenletFeatureGates>>
    /\ UNCHANGED admissionVars
    /\ UNCHANGED validationVars
    /\ UNCHANGED errorVars
    /\ UNCHANGED parallelVars
    /\ UNCHANGED healingVars

DoReconcile(ex, env) ==
    Pass("reconcile", Reconcile(gardenletFeatureGates, ex, env, bundle[ex.namespace]), ex, env)

DoDelete(ex, env) ==
    Pass("delete", Delete(gardenletFeatureGates, ex, env, bundle[ex.namespace]), ex, env)

DoForceDelete(ex, env) ==
    Pass("force_delete", ForceDelete(gardenletFeatureGates, ex, env, bundle[ex.namespace]), ex, env)

DoRestore(ex, env) ==
    Pass("restore", Restore(gardenletFeatureGates, ex, env, bundle[ex.namespace]), ex, env)

DoMigrate(ex, env) ==
    Pass("migrate", Migrate(gardenletFeatureGates, ex, env, bundle[ex.namespace]), ex, env)

\* actuator.New with WithGardenletFeatures(feats): the extension is
\* (re)deployed; the new process starts with fresh counters, the stored
\* bundles stay in the cluster.
New(feats) ==
    /\ gardenletFeatureGates' = feats
    /\ metrics' = [k \in Namespaces \X TriggerKinds |-> 0]
    /\ last' = NoPass
    /\ UNCHANGED <<bundle, qualified>>
    /\ UNCHANGED admissionVars
    /\ UNCHANGED validationVars
    /\ UNCHANGED errorVars
    /\ UNCHANGED parallelVars
    /\ UNCHANGED healingVars

Extensions(namespaces) ==
    {[namespace |-> n, providerConfig |-> pc] : n \in namespaces, pc \in ProviderConfigs}

Environments ==
    {[cluster |-> c, answer |-> a] : c \in ClusterAnswers, a \in BundlerAnswers}

Next ==
    \/ \E ex \in Extensions(EngineNamespaces), env \in Environments : DoReconcile(ex, env)
    \/ \E ex \in Extensions(EngineNamespaces), env \in Environments : DoDelete(ex, env)
    \/ \E ex \in Extensions(EngineNamespaces), env \in Environments : DoForceDelete(ex, env)
    \/ \E ex \in Extensions(EngineNamespaces), env \in Environments : DoRestore(ex, env)
    \/ \E ex \in Extensions(EngineNamespaces), env \in Environments : DoMigrate(ex, env)
    \/ \E feats \in GateMaps : New(feats)

Spec == Init /\ [][Next]_vars

(***************************************************************************)
(* Passes of several namespaces at a time: the controller runtime runs one *)
(* worker per Extension resource, so passes of different namespaces        *)
(* overlap while passes of the same namespace follow each other.           *)
(***************************************************************************)
\* the method of the actuator the controller runtime calls for a trigger
Invoke(kind, gates, ex, env, cur) ==
    CASE kind = "reconcile" -> Reconcile(gates, ex, env, cur)
      [] kind = "delete" -> Delete(gates, ex, env, cur)
      [] kind = "force_delete" -> ForceDelete(gates, ex, env, cur)
      [] kind = "restore" -> Restore(gates, ex, env, cur)
      [] OTHER -> Migrate(gates, ex, env, cur)

\* the managed resource the bundle calls of a pass address: the one named
\* managedResourceName in ex.Namespace
ReadBundle(store, namespace) == store[namespace]

\* the store as it would be written if the managed resource were kept in
\* one place for all namespaces
WriteBundleShared(store, namespace, b) == [n \in DOMAIN store |-> b]

WriteBundle(store, namespace, b) == [store EXCEPT ![namespace] = b]

\* the trigger calls of the overlapping passes
Call(kind, providerConfig, cluster, answer) ==
    [kind |-> kind, providerConfig |-> providerConfig, cluster |-> cluster, answer |-> answer]

ParallelCalls ==
    {Call("reconcile", Ptr(PayloadValid), "awake", "ok"),
     Call("reconcile", Ptr(PayloadValid), "awake", "error"),
     Call("reconcile", Nil, "awake", "ok"),
     Call("delete", Ptr(PayloadValid), "awake", "ok"),
     Call("delete", Ptr(PayloadValid), "awake", "error"),
     Call("force_delete", Nil, "awake", "notfound"),
     Call("restore", Ptr(PayloadValidOtlp), "awake", "ok"),
     Call("migrate", Ptr(PayloadValid), "hibernated", "ok")}

\* the outcome of the call c of namespace n against the stored bundle cur
CallOutcome(n, c, cur) ==
    Invoke(c.kind, gardenletFeatureGates,
           [namespace |-> n, providerConfig |-> c.providerConfig],
           [cluster |-> c.cluster, answer |-> c.answer], cur)

\* the worker of namespace n takes a trigger from its queue; the
\* controller runtime runs at most one pass per resource at a time
BeginPass(n, c) ==
    /\ inflight[n] = Nil
    /\ inflight' = [inflight EXCEPT ![n] = Ptr(c)]
    /\ UNCHANGED <<alone, agree>>
    /\ UNCHANGED engineVars
    /\ UNCHANGED admissionVars
    /\ UNCHANGED validationVars
    /\ UNCHANGED errorVars
    /\ UNCHANGED healingVars

\* the pass of namespace n issues its bundle call and returns
CompletePass(n) ==
    /\ inflight[n] # Nil
    /\ TotalCount + Len(CallOutcome(n, inflight[n][1], ReadBundle(bundle, n)).incs) <= MaxCount
    /\ bundle' = WriteBundle(bundle, n, CallOutcome(n, inflight[n][1], ReadBundle(bundle, n)).bundle)
    /\ metrics' = IncAll(metrics, n, CallOutcome(n, inflight[n][1], ReadBundle(bundle, n)).incs)
    /\ alone' = [alone EXCEPT ![n] = CallOutcome(n, inflight[n][1], alone[n]).bundle]
    /\ agree' = (/\ agree
                 /\ CallOutcome(n, inflight[n][1], ReadBundle(bundle, n)).err
                        = CallOutcome(n, inflight[n][1], alone[n]).err
                 /\ CallOutcome(n, inflight[n][1], ReadBundle(bundle, n)).calls
                        = CallOutcome(n, inflight[n][1], alone[n]).calls)
    /\ inflight' = [inflight EXCEPT ![n] = Nil]
    /\ qualified' = IF Qualifies(inflight[n][1].kind, gardenletFeatureGates,
                                 [namespace |-> n, providerConfig |-> inflight[n][1].providerConfig],
                                 [cluster |-> inflight[n][1].cluster, answer |-> inflight[n][1].answer])
                    THEN qualified \cup {n} ELSE qualified
    /\ UNCHANGED <<gardenletFeatureGates, last>>
    /\ UNCHANGED admissionVars
    /\ UNCHANGED validationVars
    /\ UNCHANGED errorVars
    /\ UNCHANGED healingVars

\* the extension is redeployed with the feature gates feats: the passes
\* that are running end with the process, the counters start afresh
Restart(feats) ==
    /\ gardenletFeatureGates' = feats
    /\ metrics' = [k \in Namespaces \X TriggerKinds |-> 0]
    /\ inflight' = [n \in Namespaces |-> Nil]
    /\ UNCHANGED <<bundle, last, alone, agree, qualified>>
    /\ UNCHANGED admissionVars
    /\ UNCHANGED validationVars
    /\ UNCHANGED errorVars
    /\ UNCHANGED healingVars

ParallelNext ==
    \/ \E n \in Namespaces, c \in ParallelCalls : BeginPass(n, c)
    \/ \E n \in Namespaces : CompletePass(n)
    \/ \E feats \in GateMaps : Restart(feats)

ParallelSpec == Init /\ [][ParallelNext]_vars

(***************************************************************************)
(* Convergence: the inputs change for a while and then come to rest with   *)
(* the feature gate on, the cluster awake and a valid providerConfig. The  *)
(* dispatcher calls Reconcile for the last change and again after every    *)
(* pass that returned an error; it may also call it at any other time.     *)
(***************************************************************************)
\* the counters the dispatcher's retries keep incrementing, followed up to
\* the bound; larger values are not told apart
Saturate(m) == [k \in DOMAIN m |-> IF m[k] > MaxCount THEN MaxCount ELSE m[k]]

\* the bundle Reconcile submits for the namespace
DesiredBundle(namespace) ==
    Ptr([name |-> managedResourceName, keepObjects |-> FALSE,
         data |-> AddAllAndSerialize(namespace)])

\* the providerConfigs the inputs come to rest with, both valid: the debug
\* exporter alone, and the debug and the OTLP exporter with a token
SettledProviderConfigs ==
    {Ptr(PayloadValid),
     Ptr(RawPayload(TRUE, CollectorConfigGVK, FALSE,
                    [CfgDebugOnly EXCEPT !.otlphttp.enabled = Ptr(TRUE),
                                         !.otlphttp.token = Ref("tok", "key")]))}

\* what the API server answers while the cluster is not hibernated: the
\* cluster fetch fails, or it succeeds and the bundle call is answered
SettledEnvironments ==
    {[cluster |-> "error", answer |-> "ok"]}
    \cup {[cluster |-> "awake", answer |-> a] : a \in BundlerAnswers}

\* the resources and answers of the passes before the inputs come to rest
UnsettledExtensions ==
    {[namespace |-> n, providerConfig |-> pc] :
        n \in EngineNamespaces, pc \in {Nil, Ptr(PayloadValid), Ptr(PayloadNoExporters)}}

UnsettledEnvironments ==
    {[cluster |-> c, answer |-> a] : c \in ClusterAnswers, a \in {"ok", "error"}}

\* the inputs change: a Reconcile or a Delete with any input (the other
\* triggers delegate to these two), or a redeployment
Disturb ==
    /\ settled = Nil
    /\ \/ \E ex \in UnsettledExtensions, env \in UnsettledEnvironments : DoReconcile(ex, env)
       \/ \E ex \in UnsettledExtensions, env \in UnsettledEnvironments : DoDelete(ex, env)
       \/ \E feats \in GateMaps : New(feats)

\* the last change of the inputs: the resource holds pc from now on and
\* the dispatcher queues a Reconcile for the change
Settle(pc) ==
    /\ settled = Nil
    /\ OpenTelemetryCollector \in DOMAIN gardenletFeatureGates
    /\ gardenletFeatureGates[OpenTelemetryCollector]
    /\ settled' = pc
    /\ queued' = TRUE
    /\ UNCHANGED engineVars
    /\ UNCHANGED admissionVars
    /\ UNCHANGED validationVars
    /\ UNCHANGED errorVars
    /\ UNCHANGED parallelVars

\* a Reconcile pass of namespace n on the settled inputs with the outcome
\* out; a pass that returns an error is queued again
SettledPass(n, env, out) ==
    /\ settled # Nil
    /\ bundle' = [bundle EXCEPT ![n] = out.bundle]
    /\ metrics' = Saturate(IncAll(metrics, n, out.incs))
    /\ last' = [trigger |-> "reconcile", namespace |-> n,
                gates |-> gardenletFeatureGates, cluster |-> env.cluster,
                providerConfig |-> settled, answer |-> env.answer,
                before |-> bundle[n],
                err |-> out.err, calls |-> out.calls, replies |-> out.replies,
                after |-> out.bundle,
                counted |-> [k \in TriggerKinds |-> IF k = "reconcile" THEN 1 ELSE 0],
                repeated |-> Nil]
    /\ qualified' = IF Qualifies("reconcile", gardenletFeatureGates,
                                 [namespace |-> n, providerConfig |-> settled], env)
                    THEN qualified \cup {n} ELSE qualified
    /\ queued' = (out.err # NoError)
    /\ UNCHANGED <<gardenletFeatureGates, settled>>
    /\ UNCHANGED admissionVars
    /\ UNCHANGED validationVars
    /\ UNCHANGED errorVars
    /\ UNCHANGED parallelVars

SettledReconcile(n, env) ==
    \E out \in {Reconcile(gardenletFeatureGates, [namespace |-> n, providerConfig |-> settled],
                          env, bundle[n])} :
        SettledPass(n, env, out)

\* the pass the dispatcher owes, at a time the API server answers
QueuedReconcileAnswered ==
    /\ queued
    /\ \E n \in EngineNamespaces : SettledReconcile(n, [cluster |-> "awake", answer |-> "ok"])

HealingNext ==
    \/ Disturb
    \/ \E pc \in SettledProviderConfigs : Settle(pc)
    \/ \E n \in EngineNamespaces, env \in SettledEnvironments : SettledReconcile(n, env)

\* The dispatcher runs a queued pass and the API server comes to answer:
\* a pass that stays queued is eventually run with the cluster read and
\* the bundle call answered.
HealingSpec == Init /\ [][HealingNext]_vars /\ WF_vars(QueuedReconcileAnswered)

(***************************************************************************)
(* Admission actions                                                       *)
(***************************************************************************)
\* the provider configs of the extension blocks of an admitted object
BlockProviderConfigs ==
    {Nil, Ptr(PayloadValid), Ptr(PayloadNoExporters), Ptr(PayloadGarbage)}

\* core.Extension blocks: those of this extension's type, and one of another
ExtensionBlocks ==
    {[type |-> ExtensionType, disabled |-> d, providerConfig |-> pc] :
        d \in {Nil, Ptr(FALSE), Ptr(TRUE)}, pc \in BlockProviderConfigs}
    \cup {[type |-> "other-extension", disabled |-> Nil, providerConfig |-> Ptr(PayloadGarbage)]}

Shoot(deletionTimestamp, extensions) ==
    Ptr([type |-> "Shoot", deletionTimestamp |-> deletionTimestamp, extensions |-> extensions])

\* an object that is not a *core.Shoot
NotAShoot == Ptr([type |-> "Seed", deletionTimestamp |-> Nil, extensions |-> <<>>])

\* the sequence s without its element i
RemoveAt(s, i) == SubSeq(s, 1, i - 1) \o SubSeq(s, i + 1, Len(s))

\* The objects a requester may submit when cur is stored: a first object
\* when nothing is stored; otherwise the stored object unchanged, with one
\* more extension block, with one block removed or replaced, or marked
\* for deletion (a deletion timestamp is never taken back).
Requests(cur) ==
    IF cur = Nil
    THEN {Shoot(Nil, <<>>)} \cup {Shoot(Nil, <<b>>) : b \in ExtensionBlocks} \cup {NotAShoot}
    ELSE LET dt == cur[1].deletionTimestamp
             exts == cur[1].extensions
         IN  {cur, Shoot(Ptr("t"), exts), NotAShoot}
             \cup {Shoot(dt, Append(exts, b)) : b \in {x \in ExtensionBlocks : Len(exts) < MaxExtensions}}
             \cup {Shoot(dt, RemoveAt(exts, i)) : i \in 1..Len(exts)}
             \cup {Shoot(dt, [exts EXCEPT ![i] = b]) : i \in 1..Len(exts), b \in ExtensionBlocks}

\* NewShootValidator(decoder): the webhook is set up with a decoder
NewShootValidator(decoder) ==
    /\ validator = Nil
    /\ validator' = newShootValidator(decoder).validator
    /\ construction' = [called |-> TRUE, decoder |-> decoder,
                        err |-> newShootValidator(decoder).err]
    /\ UNCHANGED <<stored, admission>>
    /\ UNCHANGED engineVars
    /\ UNCHANGED validationVars
    /\ UNCHANGED errorVars
    /\ UNCHANGED parallelVars
    /\ UNCHANGED healingVars

\* The admission framework calls Validate(ctx, newObj, oldObj) before the
\* object is persisted; a rejected object is not stored.
Admit(newObj, oldObj) ==
    LET err == shootValidatorValidate(validator[1], newObj, oldObj)
    IN  /\ validator # Nil
        /\ admission' = [called |-> TRUE, newObj |-> newObj, err |-> err]
        /\ stored' = IF err = NoError THEN newObj ELSE stored
        /\ UNCHANGED <<validator, construction>>
        /\ UNCHANGED engineVars
        /\ UNCHANGED validationVars
        /\ UNCHANGED errorVars
        /\ UNCHANGED parallelVars
        /\ UNCHANGED healingVars

AdmissionNext ==
    \/ \E decoder \in {Nil, Ptr("strict-universal-decoder")} : NewShootValidator(decoder)
    \/ \E newObj \in Requests(stored) : Admit(newObj, stored)

AdmissionSpec == Init /\ [][AdmissionNext]_vars

(***************************************************************************)
(* Validation of a config on its own                                       *)
(***************************************************************************)
\* a caller holds any of the enumerated configs and has not validated it
ValidationInit ==
    /\ gardenletFeatureGates = <<>>
    /\ bundle = [n \in Namespaces |-> Nil]
    /\ metrics = [k \in Namespaces \X TriggerKinds |-> 0]
    /\ last = NoPass
    /\ validator = Nil
    /\ construction = NoConstruction
    /\ stored = Nil
    /\ admission = NoAdmission
    /\ candidate \in ConfigsWithin(MaxEdits)
    /\ validation = NoValidation
    /\ given = NoError
    /\ ignored = NoIgnore
    /\ inflight = [n \in Namespaces |-> Nil]
    /\ alone = [n \in Namespaces |-> Nil]
    /\ agree = TRUE
    /\ qualified = {}
    /\ settled = Nil
    /\ queued = FALSE

\* validation.Validate(cfg) is called with the config the caller holds
DoValidate ==
    /\ validation' = [called |-> TRUE, cfg |-> candidate, err |-> Validate(candidate)]
    /\ UNCHANGED <<candidate>>
    /\ UNCHANGED engineVars
    /\ UNCHANGED admissionVars
    /\ UNCHANGED errorVars
    /\ UNCHANGED parallelVars
    /\ UNCHANGED healingVars

ValidationNext == DoValidate

ValidationSpec == ValidationInit /\ [][ValidationNext]_vars

(***************************************************************************)
(* IgnoreExtensionNotFound on its own                                      *)
(***************************************************************************)
\* error values as they are made: the package variable, an error with the
\* same text made elsewhere, any other error, errors of the API server,
\* and an aggregate of field errors
BaseErrors ==
    {ErrExtensionNotFound, NewError(<<"extension not found">>), NewError(<<"an error">>),
     NotFoundError, TransientError, Validate(ZeroConfig)}

\* the texts of the fmt.Errorf calls that wrap an error
WrapTexts == {<<ExtensionType>>, <<"failed to get cluster">>, <<"an error">>}

\* the errors of set and those with one more fmt.Errorf("...%w") around them
Wrapped(set) == set \cup {WrapError(t, e) : t \in WrapTexts, e \in set}

\* the errors with at most n layers around a base error
RECURSIVE ErrorsWithin(_)
ErrorsWithin(n) == IF n = 0 THEN BaseErrors ELSE Wrapped(ErrorsWithin(n - 1))

\* a caller holds nil or any of the enumerated errors
ErrorsInit ==
    /\ gardenletFeatureGates = <<>>
    /\ bundle = [n \in Namespaces |-> Nil]
    /\ metrics = [k \in Namespaces \X TriggerKinds |-> 0]
    /\ last = NoPass
    /\ validator = Nil
    /\ construction = NoConstruction
    /\ stored = Nil
    /\ admission = NoAdmission
    /\ candidate = ZeroConfig
    /\ validation = NoValidation
    /\ given \in {NoError} \cup ErrorsWithin(MaxWraps)
    /\ ignored = NoIgnore
    /\ inflight = [n \in Namespaces |-> Nil]
    /\ alone = [n \in Namespaces |-> Nil]
    /\ agree = TRUE
    /\ qualified = {}
    /\ settled = Nil
    /\ queued = FALSE

\* IgnoreExtensionNotFound(err) is called with the error the caller holds
DoIgnoreExtensionNotFound ==
    /\ ignored' = [called |-> TRUE, err |-> given, result |-> IgnoreExtensionNotFound(given)]
    /\ UNCHANGED <<given>>
    /\ UNCHANGED engineVars
    /\ UNCHANGED admissionVars
    /\ UNCHANGED validationVars
    /\ UNCHANGED parallelVars
    /\ UNCHANGED healingVars

ErrorsNext == DoIgnoreExtensionNotFound

ErrorsSpec == ErrorsInit /\ [][ErrorsNext]_vars

(***************************************************************************)
(* Properties of the reconciliation engine (checked under Spec)            *)
(***************************************************************************)
\* the feature gate OpenTelemetryCollector is in the map and true
GateOn(gates) == OpenTelemetryCollector \in DOMAIN gates /\ gates[OpenTelemetryCollector]

\* the provider config is absent, does not decode or does not validate
BadProviderConfig(pc) ==
    \/ pc = Nil
    \/ DecodeInto(pc[1]).err # NoError
    \/ Validate(DecodeInto(pc[1]).cfg) # NoError

\* the Extension resource and the answers the latest pass ran with
LastEx == [namespace |-> last.namespace, providerConfig |-> last.providerConfig]
LastEnv == [cluster |-> last.cluster, answer |-> last.answer]

\* the latest pass issued the calls, returned the result and left the
\* bundle that outcome o describes
LastPassMatches(o) ==
    /\ last.calls = o.calls
    /\ last.err = o.err
    /\ last.after = o.bundle

\* C1 as stated: every Reconcile pass on a hibernated cluster, whatever the
\* feature-gate state and the providerConfig, issues neither an apply nor a
\* remove and returns success.
C1_HibernatedAnyGate ==
    (last.trigger = "reconcile" /\ last.cluster = "hibernated")
        => (last.calls = <<>> /\ last.err = NoError)

\* C1 amended: every Reconcile pass that runs with the feature gate enabled
\* on a hibernated cluster, whatever the providerConfig, issues neither an
\* apply nor a remove, leaves the bundle as it was and returns success.
C1_HibernatedGateOn ==
    (last.trigger = "reconcile" /\ GateOn(last.gates) /\ last.cluster = "hibernated")
        => (/\ last.calls = <<>>
            /\ last.err = NoError
            /\ last.after = last.before
            /\ bundle[last.namespace] = last.before)

C1_Witness ==
    /\ last.trigger = "reconcile"
    /\ GateOn(last.gates)
    /\ last.cluster = "hibernated"
    /\ last.before # Nil
    /\ BadProviderConfig(last.providerConfig)

\* C2: with the feature gate absent from the map or false, a Reconcile pass
\* issues exactly one remove of the named bundle and no apply, and its calls,
\* its result and the bundle it leaves are those of Delete on the same
\* resource, for every cluster answer and every providerConfig.
C2_GateOffIsDelete ==
    (last.trigger = "reconcile" /\ ~GateOn(last.gates))
        => (/\ last.calls = <<RemoveCall(last.namespace, managedResourceName)>>
            /\ LastPassMatches(Delete(last.gates, LastEx, LastEnv, last.before)))

C2_Witness ==
    /\ last.trigger = "reconcile"
    /\ last.gates = <<>>
    /\ last.cluster = "hibernated"
    /\ last.before # Nil
    /\ last.after = Nil
    /\ last.err = NoError

\* C3: a Reconcile pass with the feature gate on and the cluster not
\* hibernated whose providerConfig is absent, does not decode or does not
\* validate returns an error and issues no apply and no remove; the bundle
\* an earlier pass applied is left exactly as it was.
C3_BadConfigTouchesNothing ==
    (/\ last.trigger = "reconcile"
     /\ GateOn(last.gates)
     /\ last.cluster = "awake"
     /\ BadProviderConfig(last.providerConfig))
        => (/\ last.err # NoError
            /\ last.calls = <<>>
            /\ last.after = last.before
            /\ bundle[last.namespace] = last.before)

C3_Witness ==
    /\ last.trigger = "reconcile"
    /\ GateOn(last.gates)
    /\ last.cluster = "awake"
    /\ last.providerConfig = Ptr(PayloadNoExporters)
    /\ last.before # Nil
    /\ last.err # NoError

\* C4: a Reconcile pass that follows a Reconcile pass of the same resource
\* with the same inputs (feature gates, cluster answer, providerConfig and
\* bundler answer) issues the same calls with the same bundle, returns the
\* same result and leaves the stored bundle as the first pass left it.
C4_RepeatedReconcile ==
    (last.trigger = "reconcile" /\ last.repeated # Nil)
        => (/\ last.calls = last.repeated[1].calls
            /\ last.err = last.repeated[1].err
            /\ last.before = last.repeated[1].after
            /\ last.after = last.repeated[1].after
            /\ bundle[last.namespace] = last.repeated[1].after)

C4_Witness ==
    /\ last.trigger = "reconcile"
    /\ last.repeated # Nil
    /\ Len(last.calls) = 1
    /\ last.calls[1].op = "apply"
    /\ last.err = NoError
    /\ last.after = last.before
    /\ last.after # Nil

\* C5: Delete issues one remove of the named bundle whatever the feature
\* gates, the cluster answer and the providerConfig are; a not-found answer
\* of the bundler is returned as success, any other error of the bundler
\* is returned to the caller; a Delete of an absent bundle that the bundler
\* answers with nil or not-found succeeds and leaves the bundle absent.
C5_DeleteIdempotent ==
    (last.trigger = "delete")
        => (/\ last.calls = <<RemoveCall(last.namespace, managedResourceName)>>
            /\ Len(last.replies) = 1
            /\ IsNotFound(last.replies[1]) => last.err = NoError
            /\ ~IsNotFound(last.replies[1]) => last.err = last.replies[1]
            /\ last.err = NoError => (last.after = Nil /\ bundle[last.namespace] = Nil)
            /\ last.err # NoError => last.after = last.before
            /\ (last.before = Nil /\ last.answer # "error")
                   => (last.err = NoError /\ last.after = Nil)
            /\ \A g \in GateMaps, c \in ClusterAnswers, pc \in ProviderConfigs :
                   LastPassMatches(Delete(g,
                                          [namespace |-> last.namespace, providerConfig |-> pc],
                                          [cluster |-> c, answer |-> last.answer],
                                          last.before)))

C5_Witness ==
    /\ last.trigger = "delete"
    /\ last.repeated # Nil
    /\ last.before = Nil
    /\ IsNotFound(last.replies[1])
    /\ last.err = NoError
    /\ last.after = Nil

\* C6: for every input and every stored bundle, a ForceDelete pass issues
\* the calls, returns the result and leaves the bundle that Delete does, and
\* a Restore or Migrate pass those that Reconcile does.
C6_TriggerAliases ==
    /\ last.trigger = "force_delete"
           => LastPassMatches(Delete(last.gates, LastEx, LastEnv, last.before))
    /\ last.trigger \in {"restore", "migrate"}
           => LastPassMatches(Reconcile(last.gates, LastEx, LastEnv, last.before))

C6_Witness ==
    /\ last.trigger = "migrate"
    /\ GateOn(last.gates)
    /\ last.before = Nil
    /\ Len(last.calls) = 1
    /\ last.calls[1].op = "apply"
    /\ last.after # Nil

(***************************************************************************)
(* Properties of the admission validator (checked under AdmissionSpec)     *)
(***************************************************************************)
\* the latest admission call was made with a *core.Shoot
AdmittedShoot == admission.called /\ admission.newObj[1].type = "Shoot"

AdmittedExtensions == admission.newObj[1].extensions

\* the object has an extension block of this extension's type; the
\* matching block is the first of them
HasMatchingBlock == \E i \in 1..Len(AdmittedExtensions) : AdmittedExtensions[i].type = ExtensionType

MatchingBlock ==
    AdmittedExtensions[CHOOSE i \in 1..Len(AdmittedExtensions) :
                          /\ AdmittedExtensions[i].type = ExtensionType
                          /\ \A j \in 1..(i-1) : AdmittedExtensions[j].type # ExtensionType]

\* C7: a new object with a deletion timestamp is accepted whatever its
\* extension blocks and their payloads are.
C7_DeletionBypass ==
    (AdmittedShoot /\ admission.newObj[1].deletionTimestamp # Nil)
        => admission.err = NoError

C7_Witness ==
    /\ AdmittedShoot
    /\ admission.newObj[1].deletionTimestamp # Nil
    /\ HasMatchingBlock
    /\ MatchingBlock.disabled # Ptr(TRUE)
    /\ MatchingBlock.providerConfig = Ptr(PayloadGarbage)
    /\ admission.err = NoError

\* C8: an object whose matching extension block has disabled = true is
\* accepted, also when the block's payload is missing, undecodable or
\* invalid.
C8_DisabledSkipsValidation ==
    (AdmittedShoot /\ HasMatchingBlock /\ MatchingBlock.disabled = Ptr(TRUE))
        => admission.err = NoError

C8_Witness ==
    /\ AdmittedShoot
    /\ admission.newObj[1].deletionTimestamp = Nil
    /\ HasMatchingBlock
    /\ MatchingBlock.disabled = Ptr(TRUE)
    /\ MatchingBlock.providerConfig = Ptr(PayloadGarbage)
    /\ admission.err = NoError

\* C9: an object with no extension block of this extension's type is
\* accepted, whatever other extension blocks it carries.
C9_MissingExtensionAccepted ==
    (AdmittedShoot /\ ~HasMatchingBlock) => admission.err = NoError

C9_Witness ==
    /\ AdmittedShoot
    /\ admission.newObj[1].deletionTimestamp = Nil
    /\ ~HasMatchingBlock
    /\ Len(AdmittedExtensions) > 0
    /\ admission.err = NoError

\* C10: an object that is not being deleted and whose matching extension
\* block is not disabled (disabled unset or false) and carries no
\* providerConfig is rejected with an error whose message contains
\* "no provider config specified".
C10_MissingProviderConfigRejected ==
    (/\ AdmittedShoot
     /\ admission.newObj[1].deletionTimestamp = Nil
     /\ HasMatchingBlock
     /\ MatchingBlock.disabled # Ptr(TRUE)
     /\ MatchingBlock.providerConfig = Nil)
        => (/\ admission.err # NoError
            /\ "no provider config specified" \in MessageTokens(admission.err))

C10_Witness ==
    /\ AdmittedShoot
    /\ admission.newObj[1].deletionTimestamp = Nil
    /\ HasMatchingBlock
    /\ MatchingBlock.disabled = Ptr(FALSE)
    /\ MatchingBlock.providerConfig = Nil
    /\ admission.err # NoError

\* the latest admission call had to judge a payload: the object is a Shoot
\* that is not being deleted, and its matching extension block is not
\* disabled and carries a providerConfig
PayloadJudged ==
    /\ AdmittedShoot
    /\ admission.newObj[1].deletionTimestamp = Nil
    /\ HasMatchingBlock
    /\ MatchingBlock.disabled # Ptr(TRUE)
    /\ MatchingBlock.providerConfig # Nil

\* what decoding the judged payload gives
JudgedDecode == DecodeInto(MatchingBlock.providerConfig[1])

\* C11: when the admission call has to judge a payload, it accepts exactly
\* when the payload decodes and Validate returns no error on the decoded
\* config. A payload that does not decode is rejected with an error that
\* wraps the decoder's error and says "invalid provider spec configuration";
\* a decoded config that does not validate is rejected with an error that
\* wraps Validate's error and says "invalid extension configuration";
\* neither message carries the other's text.
C11_AcceptsIffDecodesAndValidates ==
    PayloadJudged
        => (/\ admission.err = NoError
                <=> (/\ JudgedDecode.err = NoError
                     /\ Validate(JudgedDecode.cfg) = NoError)
            /\ JudgedDecode.err # NoError
                => (/\ Len(admission.err) > 1
                    /\ Tail(admission.err) = JudgedDecode.err
                    /\ "invalid provider spec configuration" \in MessageTokens(admission.err)
                    /\ "invalid extension configuration" \notin MessageTokens(admission.err))
            /\ (JudgedDecode.err = NoError /\ Validate(JudgedDecode.cfg) # NoError)
                => (/\ Len(admission.err) > 1
                    /\ Tail(admission.err) = Validate(JudgedDecode.cfg)
                    /\ "invalid extension configuration" \in MessageTokens(admission.err)
                    /\ "invalid provider spec configuration" \notin MessageTokens(admission.err)))

C11_Witness ==
    /\ PayloadJudged
    /\ MatchingBlock.providerConfig = Ptr(PayloadGarbage)
    /\ admission.err # NoError
    /\ stored # Nil
    /\ stored # admission.newObj

\* C12: a NewShootValidator call with a nil decoder returns an error whose
\* message contains "invalid decoder specified" and returns no validator;
\* every validator that exists holds a decoder, and every admission call
\* that has run was served by a validator that holds a decoder.
C12_NilDecoderFailsAtConstruction ==
    /\ (construction.called /\ construction.decoder = Nil)
           => (/\ construction.err # NoError
               /\ "invalid decoder specified" \in MessageTokens(construction.err)
               /\ validator = Nil
               /\ ~admission.called)
    /\ validator # Nil => validator[1].decoder # Nil
    /\ admission.called => (validator # Nil /\ validator[1].decoder # Nil)

C12_Witness ==
    /\ construction.called
    /\ construction.decoder = Nil
    /\ construction.err # NoError
    /\ validator = Nil

(***************************************************************************)
(* Properties of Validate (checked under ValidationSpec)                   *)
(***************************************************************************)
\* the field errors the latest Validate call returned
ReportedItems == IF validation.err = NoError THEN <<>> ELSE validation.err[1].items

\* how many of them are on path
ReportedOn(path) == Cardinality({i \in 1..Len(ReportedItems) : ReportedItems[i].path = path})

\* the paths the reported field errors are on
ReportedPaths == {ReportedItems[i].path : i \in 1..Len(ReportedItems)}

\* the enabled flag of the exporter is set and true
FlagTrue(exporter) == exporter.enabled = Ptr(TRUE)

\* no exporter of cfg has enabled = true
NoExporterEnabled(cfg) == ~FlagTrue(cfg.debug) /\ ~FlagTrue(cfg.otlphttp)

\* the endpoint value is set and url.Parse returns an error for it
EndpointRejected(value) == value # EmptyString /\ urlParseFails(value)

\* the reference is present and its name or its dataKey is empty
ReferenceIncomplete(ref) == ref # Nil /\ (ref[1].name = "" \/ ref[1].dataKey = "")

\* the paths of the rule instances cfg violates
ViolatedPaths(cfg) ==
    (IF NoExporterEnabled(cfg) THEN {"spec.exporters"} ELSE {})
    \cup {urlFields(cfg)[i].path :
             i \in {j \in 1..Len(urlFields(cfg)) : EndpointRejected(urlFields(cfg)[j].value)}}
    \cup {nonNegativeFields(cfg)[i].path :
             i \in {j \in 1..Len(nonNegativeFields(cfg)) : nonNegativeFields(cfg)[j].value < 0}}
    \cup {resourceRefs(cfg)[i].path :
             i \in {j \in 1..Len(resourceRefs(cfg)) : ReferenceIncomplete(resourceRefs(cfg)[j].ref)}}

\* the paths of all rule instances: the exporters rule, five endpoint
\* fields, two buffer sizes, four references
RulePaths ==
    {"spec.exporters"}
    \cup {urlFields(ZeroConfig)[i].path : i \in 1..Len(urlFields(ZeroConfig))}
    \cup {nonNegativeFields(ZeroConfig)[i].path : i \in 1..Len(nonNegativeFields(ZeroConfig))}
    \cup {resourceRefs(ZeroConfig)[i].path : i \in 1..Len(resourceRefs(ZeroConfig))}

\* C13: for every config in which no exporter has enabled = true (the flag
\* unset or false on both exporters), Validate returns an error that holds
\* the required-value violation "no exporter enabled" on spec.exporters,
\* whatever the other fields are.
C13_NoExporterAlwaysReported ==
    (validation.called /\ NoExporterEnabled(validation.cfg))
        => (/\ validation.err # NoError
            /\ \E i \in 1..Len(ReportedItems) :
                   /\ ReportedItems[i].path = "spec.exporters"
                   /\ ReportedItems[i].type = "Required value"
                   /\ ReportedItems[i].detail = "no exporter enabled"
            /\ "no exporter enabled" \in MessageTokens(validation.err))

C13_Witness ==
    /\ validation.called
    /\ validation.cfg.debug.enabled = Ptr(FALSE)
    /\ validation.cfg.otlphttp.enabled = Nil
    /\ validation.cfg.otlphttp.read_buffer_size < 0
    /\ EndpointRejected(validation.cfg.otlphttp.endpoint)
    /\ ReportedOn("spec.exporters") = 1
    /\ Len(ReportedItems) > 2

\* C14: the error Validate returns holds exactly one violation on the path
\* of every rule instance the config violates and none on any other path:
\* a config with two independent defects reports both, a config whose only
\* defect is that no exporter is enabled reports exactly one violation.
C14_OneViolationPerViolatedRule ==
    validation.called
        => (/\ \A path \in RulePaths :
                   ReportedOn(path) = IF path \in ViolatedPaths(validation.cfg) THEN 1 ELSE 0
            /\ ReportedPaths \subseteq RulePaths
            /\ Len(ReportedItems) = Cardinality(ViolatedPaths(validation.cfg))
            /\ validation.cfg = ZeroConfig
                   => (Len(ReportedItems) = 1 /\ ReportedPaths = {"spec.exporters"}))

C14_Witness ==
    /\ validation.called
    /\ validation.cfg = [CfgOtlpGood EXCEPT !.otlphttp.endpoint = UrlNoScheme,
                                            !.otlphttp.read_buffer_size = -1]
    /\ Len(ReportedItems) = 2
    /\ ReportedPaths = {"spec.exporters.otlphttp.endpoint",
                        "spec.exporters.otlphttp.read_buffer_size"}

\* the four rules hold of cfg: an exporter is enabled, every endpoint that
\* is set parses as a URL, both buffer sizes are >= 0, and every reference
\* that is present has a name and a dataKey
AllRulesHold(cfg) ==
    /\ FlagTrue(cfg.debug) \/ FlagTrue(cfg.otlphttp)
    /\ \A v \in {cfg.otlphttp.endpoint, cfg.otlphttp.traces_endpoint,
                  cfg.otlphttp.metrics_endpoint, cfg.otlphttp.logs_endpoint,
                  cfg.otlphttp.profiles_endpoint} :
           v = EmptyString \/ ~urlParseFails(v)
    /\ cfg.otlphttp.read_buffer_size >= 0
    /\ cfg.otlphttp.write_buffer_size >= 0
    /\ \A r \in {cfg.otlphttp.token, cfg.otlphttp.tls.ca,
                  cfg.otlphttp.tls.cert, cfg.otlphttp.tls.key} :
           r = Nil \/ (r[1].name # "" /\ r[1].dataKey # "")

OnlyEndpointSet(value) ==
    [ZeroConfig EXCEPT !.debug.enabled = Ptr(TRUE), !.otlphttp.endpoint = value]

\* for each of the five endpoint fields, the latest Validate call reported
\* a violation on the field's path exactly when the field is set and does
\* not parse as a URL, and never when the field is empty
EndpointsJudgedByParse ==
    \A i \in 1..Len(urlFields(validation.cfg)) :
        /\ ReportedOn(urlFields(validation.cfg)[i].path)
               = IF EndpointRejected(urlFields(validation.cfg)[i].value) THEN 1 ELSE 0
        /\ urlFields(validation.cfg)[i].value = EmptyString
               => ReportedOn(urlFields(validation.cfg)[i].path) = 0

\* C16 as stated: each endpoint field is reported exactly when it is set
\* and is not a valid URL, never when it is empty, and a config with one
\* exporter enabled and endpoint = "not a url" yields a violation on the
\* endpoint field and on nothing else.
C16_NotAUrlRejected ==
    validation.called
        => (/\ EndpointsJudgedByParse
            /\ validation.cfg = OnlyEndpointSet(UrlNotAUrl)
                   => ReportedPaths = {"spec.exporters.otlphttp.endpoint"})

\* C16 amended: each endpoint field is reported on its own path exactly
\* when it is set and url.Parse returns an error for it, never when it is
\* empty; a config with one exporter enabled and endpoint = "://h" yields a
\* violation on the endpoint field and on nothing else, and the same config
\* with endpoint = "not a url", which url.Parse accepts as a relative
\* reference, yields no violation.
C16_EndpointsParsed ==
    validation.called
        => (/\ EndpointsJudgedByParse
            /\ validation.cfg = OnlyEndpointSet(UrlNoScheme)
                   => (/\ ReportedPaths = {"spec.exporters.otlphttp.endpoint"}
                       /\ Len(ReportedItems) = 1)
            /\ validation.cfg = OnlyEndpointSet(UrlNotAUrl)
                   => validation.err = NoError)

C16_Witness ==
    /\ validation.called
    /\ validation.cfg = OnlyEndpointSet(UrlNoScheme)
    /\ validation.err # NoError

(***************************************************************************)
(* Properties of the engine's counters and errors (checked under Spec)     *)
(***************************************************************************)
\* C17: every pass of Reconcile, Delete, ForceDelete, Restore or Migrate
\* increments the counter keyed by the namespace of the resource and the
\* trigger's own kind, whatever path the pass takes and however it ends.
C17_EveryTriggerCountsItself ==
    last.trigger \in TriggerKinds
        => (/\ last.counted[last.trigger] >= 1
            /\ metrics[<<last.namespace, last.trigger>>] >= 1)

\* the latest pass was a Reconcile that reached the providerConfig: the
\* feature gate is on and the cluster was fetched and is not hibernated
ReachedConfig ==
    /\ last.trigger = "reconcile"
    /\ GateOn(last.gates)
    /\ last.cluster = "awake"

\* the latest pass was a Reconcile with the feature gate on that failed on
\* the cluster fetch or on the bundler's apply
InfrastructureFailure ==
    /\ last.trigger = "reconcile"
    /\ GateOn(last.gates)
    /\ \/ last.cluster = "error"
       \/ Len(last.replies) = 1 /\ last.replies[1] # NoError

\* errors.As(err, *ConfigurationError): a frame of the chain has that type
IsConfigurationError(err) == \E i \in 1..Len(err) : err[i].kind = "ConfigurationError"

\* a frame of the chain is an error of the API server
HasStatusError(err) == \E i \in 1..Len(err) : err[i].kind = "StatusError"

\* C18 as stated: the error of a Reconcile pass that fails on its
\* providerConfig (absent, not decodable, not valid) is a ConfigurationError,
\* and the error of a pass that fails on the cluster fetch or on the bundler
\* is not.
C18_ConfigurationErrorType ==
    /\ (ReachedConfig /\ BadProviderConfig(last.providerConfig))
           => (last.err # NoError /\ IsConfigurationError(last.err))
    /\ InfrastructureFailure => ~IsConfigurationError(last.err)

\* C18 amended: a Reconcile pass that fails on its providerConfig returns
\* the plain error "no provider config specified" when it is absent, an
\* error "invalid provider spec configuration" that wraps the decoder's
\* error when it does not decode, and Validate's aggregate itself when it
\* does not validate; none of them holds an error of the API server. A
\* pass that fails on the cluster fetch returns "failed to get cluster"
\* wrapping the API server's error, and one that fails on the bundler's
\* apply returns the bundler's error as it is; neither carries a text of a
\* configuration failure nor is an aggregate.
C18_ConfigVersusInfrastructure ==
    /\ (ReachedConfig /\ last.providerConfig = Nil)
           => last.err = NewError(<<"no provider config specified">>)
    /\ (ReachedConfig /\ last.providerConfig # Nil
            /\ DecodeInto(last.providerConfig[1]).err # NoError)
           => (/\ last.err[1].kind = "wrapError"
               /\ last.err[1].text = <<"invalid provider spec configuration">>
               /\ Tail(last.err) = DecodeInto(last.providerConfig[1]).err)
    /\ (ReachedConfig /\ last.providerConfig # Nil
            /\ DecodeInto(last.providerConfig[1]).err = NoError
            /\ Validate(DecodeInto(last.providerConfig[1]).cfg) # NoError)
           => (/\ last.err = Validate(DecodeInto(last.providerConfig[1]).cfg)
               /\ last.err[1].kind = "aggregate")
    /\ (ReachedConfig /\ BadProviderConfig(last.providerConfig))
           => (/\ last.err # NoError
               /\ ~HasStatusError(last.err)
               /\ "failed to get cluster" \notin MessageTokens(last.err))
    /\ InfrastructureFailure
           => (/\ HasStatusError(last.err)
               /\ last.err[1].kind # "aggregate"
               /\ "no provider config specified" \notin MessageTokens(last.err)
               /\ "invalid provider spec configuration" \notin MessageTokens(last.err)
               /\ last.cluster = "error"
                      => last.err = WrapError(<<"failed to get cluster">>, TransientError)
               /\ last.cluster # "error" => last.err = last.replies[1])

C18_Witness ==
    /\ ReachedConfig
    /\ last.providerConfig = Ptr(PayloadGarbage)
    /\ last.before # Nil
    /\ Len(last.err) = 2

\* C19 as stated: a Reconcile pass with the feature gate absent or false,
\* or on a hibernated cluster, returns success whatever the bundler and
\* the cluster source answer.
C19_GateOffOrHibernatedSucceeds ==
    (last.trigger = "reconcile" /\ (~GateOn(last.gates) \/ last.cluster = "hibernated"))
        => last.err = NoError

\* C19 amended: a Reconcile pass with the feature gate absent or false, or
\* on a hibernated cluster, returns an error only when the gate is off and
\* the bundler's remove fails with an error other than not-found, and then
\* it returns that error; with the gate on and the cluster hibernated it
\* returns success, and a not-found answer of the bundler is success.
C19_OnlyRemoveFailureFails ==
    (last.trigger = "reconcile" /\ (~GateOn(last.gates) \/ last.cluster = "hibernated"))
        => (/\ last.err # NoError
                   <=> (/\ ~GateOn(last.gates)
                        /\ last.replies[1] # NoError
                        /\ ~IsNotFound(last.replies[1]))
            /\ last.err # NoError => last.err = last.replies[1]
            /\ GateOn(last.gates) => last.err = NoError)

C19_Witness ==
    /\ last.trigger = "reconcile"
    /\ ~GateOn(last.gates)
    /\ last.cluster = "hibernated"
    /\ last.before = Nil
    /\ IsNotFound(last.replies[1])
    /\ last.err = NoError

\* C20 as stated: a Reconcile pass on a resource that carries no
\* providerConfig returns the extension-not-found error of the admission
\* path, which IgnoreExtensionNotFound turns into success.
C20_MissingConfigIsNotFound ==
    (ReachedConfig /\ last.providerConfig = Nil)
        => (/\ IsExtensionNotFound(last.err)
            /\ IgnoreExtensionNotFound(last.err) = NoError)

\* C20 amended: a Reconcile pass with the feature gate on and the cluster
\* awake on a resource that carries no providerConfig fails with the plain
\* error "no provider config specified" and calls the bundler not at all;
\* the error is not ErrExtensionNotFound and IgnoreExtensionNotFound
\* returns it unchanged.
C20_MissingConfigIsConfigFailure ==
    (ReachedConfig /\ last.providerConfig = Nil)
        => (/\ last.err # NoError
            /\ "no provider config specified" \in MessageTokens(last.err)
            /\ ~IsExtensionNotFound(last.err)
            /\ IgnoreExtensionNotFound(last.err) = last.err
            /\ last.calls = <<>>)

C20_Witness ==
    /\ ReachedConfig
    /\ last.providerConfig = Nil
    /\ last.before # Nil
    /\ last.after = last.before
    /\ IgnoreExtensionNotFound(last.err) # NoError

(***************************************************************************)
(* Properties of IgnoreExtensionNotFound (checked under ErrorsSpec)        *)
(***************************************************************************)
\* err is the value of the variable ErrExtensionNotFound or wraps it at
\* some depth
HoldsErrExtensionNotFound(err) ==
    \E i \in 1..Len(err) :
        /\ err[i].id = "ErrExtensionNotFound"
        /\ \A j \in 1..(i-1) : err[j].kind = "wrapError"

\* C21: IgnoreExtensionNotFound returns nil for ErrExtensionNotFound and
\* for every error that wraps it at any depth, and returns every other
\* error as it is, also one that only has the same text; nil stays nil.
C21_IgnoresOnlyExtensionNotFound ==
    ignored.called
        => (/\ HoldsErrExtensionNotFound(ignored.err) => ignored.result = NoError
            /\ ~HoldsErrExtensionNotFound(ignored.err) => ignored.result = ignored.err
            /\ ignored.err = NoError => ignored.result = NoError)

C21_Witness ==
    /\ ignored.called
    /\ Len(ignored.err) = 3
    /\ HoldsErrExtensionNotFound(ignored.err)
    /\ ignored.result = NoError

(***************************************************************************)
(* Properties of overlapping passes (checked under ParallelSpec)           *)
(***************************************************************************)
\* C22: under every interleaving of the passes of different namespaces,
\* the bundle and the counters of a namespace change only when a pass of
\* that namespace returns, every pass returns the result and issues the
\* calls it does when the triggers of its namespace run alone in the same
\* order, and the bundle of every namespace is the bundle of that run.
C22_NamespacesIndependent ==
    /\ [](agree /\ bundle = alone)
    /\ [][\A n \in Namespaces :
             (\/ bundle'[n] # bundle[n]
              \/ \E k \in TriggerKinds : metrics'[<<n, k>>] > metrics[<<n, k>>])
                 => (inflight[n] # Nil /\ inflight'[n] = Nil)]_vars

C22_Witness ==
    /\ bundle["shoot--a"] # Nil
    /\ bundle["shoot--b"] = Nil
    /\ metrics[<<"shoot--b", "delete">>] = 1
    /\ inflight["shoot--a"] # Nil
    /\ inflight["shoot--b"] # Nil

(***************************************************************************)
(* Convergence (checked under HealingSpec)                                 *)
(***************************************************************************)
\* C23: once the inputs stay fixed with the feature gate on, the cluster
\* not hibernated and a valid providerConfig, and the dispatcher calls
\* Reconcile again after every failed pass, and the bundler's calls come
\* to succeed, the bundle of the namespace eventually exists and is the
\* desired bundle, whatever state the earlier passes left.
C23_SelfHealing ==
    \A n \in EngineNamespaces :
        (settled # Nil) ~> (bundle[n] = DesiredBundle(n))

\* the inputs are settled, the bundle is absent and the latest pass failed
\* at the bundler
C23_Witness ==
    /\ settled # Nil
    /\ bundle["shoot--a"] = Nil
    /\ queued
    /\ last.trigger = "reconcile"
    /\ last.answer = "error"
    /\ last.err = TransientError

(***************************************************************************)
(* Admission and reconciliation compared (checked under AdmissionSpec)     *)
(***************************************************************************)
\* the admission call judged a block of this extension that is not
\* disabled, on a shoot that is not being deleted
EnabledBlockJudged ==
    /\ AdmittedShoot
    /\ admission.newObj[1].deletionTimestamp = Nil
    /\ HasMatchingBlock
    /\ MatchingBlock.disabled # Ptr(TRUE)

\* Reconcile on providerConfig pc, with the feature gate on and the cluster
\* awake, passes its checks of the configuration: it comes to submit the
\* bundle, in every namespace and whatever the bundler answers
ReconcilePassesConfigChecks(pc) ==
    \A n \in Namespaces, a \in BundlerAnswers :
        Reconcile([f \in {OpenTelemetryCollector} |-> TRUE],
                  [namespace |-> n, providerConfig |-> pc],
                  [cluster |-> "awake", answer |-> a], Nil).calls # <<>>

\* C24: for every payload, present or absent, of an enabled block of a
\* shoot that is not being deleted, the admission call accepts exactly when
\* Reconcile on that payload, with the feature gate on and the cluster not
\* hibernated, passes its configuration checks.
C24_AdmissionAgreesWithReconcile ==
    EnabledBlockJudged
        => (admission.err = NoError
                <=> ReconcilePassesConfigChecks(MatchingBlock.providerConfig))

\* an enabled block without a payload was judged and rejected; Reconcile
\* stops on the missing payload and passes a valid one
C24_Witness ==
    /\ EnabledBlockJudged
    /\ MatchingBlock.providerConfig = Nil
    /\ MatchingBlock.disabled = Ptr(FALSE)
    /\ admission.err # NoError
    /\ ~ReconcilePassesConfigChecks(Nil)
    /\ ReconcilePassesConfigChecks(Ptr(PayloadValid))

(***************************************************************************)
(* Failures of the cluster source and of the bundler (checked under Spec)  *)
(***************************************************************************)
\* the triggers that run Reconcile
ReconcileKinds == {"reconcile", "restore", "migrate"}

\* C25: a Reconcile, Restore or Migrate pass with the feature gate on whose
\* cluster fetch fails returns an error and calls the bundler not at all;
\* one with the gate on, the cluster awake and a valid providerConfig
\* whose bundle submission fails returns the bundler's error; and the only
\* error of the bundler that a pass of any trigger turns into success is
\* a not-found answer to a remove.
C25_InfrastructureFailuresSurface ==
    /\ (last.trigger \in ReconcileKinds /\ GateOn(last.gates) /\ last.cluster = "error")
           => (/\ last.err # NoError
               /\ last.calls = <<>>
               /\ last.after = last.before)
    /\ (/\ last.trigger \in ReconcileKinds
        /\ GateOn(last.gates)
        /\ last.cluster = "awake"
        /\ ~BadProviderConfig(last.providerConfig)
        /\ last.answer # "ok")
           => (/\ Len(last.calls) = 1
               /\ last.calls[1].op = "apply"
               /\ last.err # NoError
               /\ last.err = last.replies[1])
    /\ \A i \in 1..Len(last.replies) :
           (last.replies[i] # NoError /\ last.err = NoError)
               => (last.calls[i].op = "remove" /\ IsNotFound(last.replies[i]))

\* a Restore with valid inputs whose apply was answered not-found: the
\* pass returns that error
C25_Witness ==
    /\ last.trigger = "restore"
    /\ GateOn(last.gates)
    /\ last.cluster = "awake"
    /\ ~BadProviderConfig(last.providerConfig)
    /\ last.answer = "notfound"
    /\ last.calls # <<>>
    /\ IsNotFound(last.err)

(***************************************************************************)
(* Teardown lasts (checked under Spec)                                     *)
(***************************************************************************)
\* the latest pass was a Delete or a ForceDelete, or a Reconcile, Restore
\* or Migrate with the feature gate absent or false, and returned success
TeardownSucceeded ==
    /\ \/ last.trigger \in {"delete", "force_delete"}
       \/ last.trigger \in ReconcileKinds /\ ~GateOn(last.gates)
    /\ last.err = NoError

\* C26: after a Delete or ForceDelete that returned success, or a Reconcile,
\* Restore or Migrate with the feature gate off that returned success, the
\* bundle of the namespace is absent; and an absent bundle comes to exist
\* only by a Reconcile, Restore or Migrate pass of that namespace that has
\* the feature gate on, the cluster awake and a valid providerConfig and
\* returns success.
C26_TeardownLasts ==
    /\ [](TeardownSucceeded => (last.after = Nil /\ bundle[last.namespace] = Nil))
    /\ [][\A n \in Namespaces :
             (bundle[n] = Nil /\ bundle'[n] # Nil)
                 => (/\ last'.trigger \in ReconcileKinds
                     /\ last'.namespace = n
                     /\ GateOn(last'.gates)
                     /\ last'.cluster = "awake"
                     /\ ~BadProviderConfig(last'.providerConfig)
                     /\ last'.err = NoError)]_vars

\* a Migrate with the feature gate off removed a bundle that existed
C26_Witness ==
    /\ last.trigger = "migrate"
    /\ ~GateOn(last.gates)
    /\ last.err = NoError
    /\ last.before # Nil
    /\ bundle[last.namespace] = Nil

(***************************************************************************)
(* Where a bundle comes from (checked under Spec)                          *)
(***************************************************************************)
\* C27: the bundle of a namespace exists only if some earlier Reconcile,
\* Restore or Migrate pass of that namespace ran with the feature gate on,
\* the cluster not hibernated and a providerConfig that decoded and
\* validated.
C27_BundleOnlyAfterQualifiedPass ==
    \A n \in Namespaces : bundle[n] # Nil => n \in qualified

\* the bundle of an earlier pass is still there after a Reconcile that
\* stopped on its providerConfig
C27_Witness ==
    /\ bundle["shoot--a"] # Nil
    /\ "shoot--a" \in qualified
    /\ last.trigger = "reconcile"
    /\ last.providerConfig = Ptr(PayloadNoExporters)
    /\ last.err # NoError
    /\ last.before # Nil
    /\ metrics[<<"shoot--a", "reconcile">>] = 1

(***************************************************************************)
(* The calls of a pass and the order of its checks (checked under Spec)    *)
(***************************************************************************)
\* the latest pass was a Reconcile, Restore or Migrate with the feature
\* gate on and the cluster awake
ReachedOrderedChecks ==
    /\ last.trigger \in ReconcileKinds
    /\ GateOn(last.gates)
    /\ last.cluster = "awake"

\* C28: every pass issues at most one bundler call, one apply or one
\* remove. An apply is issued only by a pass that found the feature gate
\* on, fetched the cluster, found it awake, decoded the providerConfig and
\* validated it, and the checks are made in that order: the first one
\* that fails decides what the pass returns, whatever the later ones would
\* have found.
C28_OneCallAfterOrderedChecks ==
    /\ Len(last.calls) <= 1
    /\ \A i \in 1..Len(last.calls) :
           /\ last.calls[i].op \in {"apply", "remove"}
           /\ last.calls[i].op = "apply"
                  => (/\ last.trigger \in ReconcileKinds
                      /\ GateOn(last.gates)
                      /\ last.cluster = "awake"
                      /\ ~BadProviderConfig(last.providerConfig))
    /\ last.trigger \in ReconcileKinds
           => (/\ ~GateOn(last.gates)
                      => (/\ Len(last.calls) = 1
                          /\ last.calls[1].op = "remove"
                          /\ "failed to get cluster" \notin MessageTokens(last.err))
               /\ (GateOn(last.gates) /\ last.cluster = "error")
                      => (/\ last.calls = <<>>
                          /\ last.err = WrapError(<<"failed to get cluster">>, TransientError))
               /\ (GateOn(last.gates) /\ last.cluster = "hibernated")
                      => (last.calls = <<>> /\ last.err = NoError)
               /\ (ReachedOrderedChecks /\ last.providerConfig = Nil)
                      => (/\ last.calls = <<>>
                          /\ "no provider config specified" \in MessageTokens(last.err))
               /\ (ReachedOrderedChecks /\ last.providerConfig # Nil
                       /\ DecodeInto(last.providerConfig[1]).err # NoError)
                      => (/\ last.calls = <<>>
                          /\ "invalid provider spec configuration" \in MessageTokens(last.err))
               /\ (ReachedOrderedChecks /\ last.providerConfig # Nil
                       /\ DecodeInto(last.providerConfig[1]).err = NoError
                       /\ Validate(DecodeInto(last.providerConfig[1]).cfg) # NoError)
                      => (/\ last.calls = <<>>
                          /\ last.err[1].kind = "aggregate")
               /\ (ReachedOrderedChecks /\ ~BadProviderConfig(last.providerConfig))
                      => (Len(last.calls) = 1 /\ last.calls[1].op = "apply"))

\* a Migrate with the gate on, a cluster fetch that fails and a payload
\* that would not decode: the cluster fetch decides
C28_Witness ==
    /\ last.trigger = "migrate"
    /\ GateOn(last.gates)
    /\ last.cluster = "error"
    /\ last.providerConfig = Ptr(PayloadGarbage)
    /\ last.calls = <<>>
    /\ "failed to get cluster" \in MessageTokens(last.err)

(***************************************************************************)
(* What the bundle depends on (checked under Spec)                         *)
(***************************************************************************)
\* the latest pass was a Reconcile that submitted the bundle and succeeded
ReconcileApplied ==
    /\ last.trigger = "reconcile"
    /\ last.err = NoError
    /\ Len(last.calls) = 1
    /\ last.calls[1].op = "apply"

\* C29: the bundle a successful Reconcile submits depends on the namespace
\* only: it is the four objects built from the namespace, and Reconcile on
\* any other valid providerConfig, with the same namespace and whatever
\* bundle is stored, submits and leaves the same bundle.
C29_BundleDependsOnNamespaceOnly ==
    ReconcileApplied
        => (/\ last.calls[1].data = AddAllAndSerialize(last.namespace)
            /\ last.after = DesiredBundle(last.namespace)
            /\ \A pc \in ProviderConfigs, cur \in {Nil, last.before, last.after} :
                   ~BadProviderConfig(pc)
                       => (/\ Reconcile(last.gates,
                                        [namespace |-> last.namespace, providerConfig |-> pc],
                                        LastEnv, cur).calls = last.calls
                           /\ Reconcile(last.gates,
                                        [namespace |-> last.namespace, providerConfig |-> pc],
                                        LastEnv, cur).bundle = last.after))

\* a Reconcile with the OTLP exporter's configuration replaced the bundle
\* that was stored
C29_Witness ==
    /\ ReconcileApplied
    /\ last.providerConfig = Ptr(PayloadValidOtlp)
    /\ last.before # Nil
    /\ last.after = last.before

(***************************************************************************)
(* The OTLP HTTP exporter's fields when the exporter is not enabled        *)
(* (checked under ValidationSpec)                                          *)
(***************************************************************************)
\* the paths of the rule instances on fields of the OTLP HTTP exporter
\* that cfg violates
ViolatedOtlpPaths(cfg) == ViolatedPaths(cfg) \ {"spec.exporters"}

\* the field errors on fields of the OTLP HTTP exporter that Validate
\* returns for cfg
OtlpItems(cfg) ==
    SelectErrs(ValidateErrs(cfg),
               [i \in 1..Len(ValidateErrs(cfg)) |-> ValidateErrs(cfg)[i].path # "spec.exporters"])

\* C30: Validate applies the endpoint, buffer size and reference rules to
\* the fields of the OTLP HTTP exporter whether or not that exporter is
\* enabled: with the exporter not enabled, every such rule the config
\* violates is reported on its path, the violations are those reported
\* for the same config with the exporter enabled, and a config whose debug
\* exporter is enabled is still rejected when a buffer size is negative, a
\* reference is incomplete or an endpoint does not parse.
C30_OtlpRulesApplyWhenDisabled ==
    (validation.called /\ ~FlagTrue(validation.cfg.otlphttp))
        => (/\ \A path \in ViolatedOtlpPaths(validation.cfg) : ReportedOn(path) = 1
            /\ SelectErrs(ReportedItems,
                          [i \in 1..Len(ReportedItems) |-> ReportedItems[i].path # "spec.exporters"])
                   = OtlpItems([validation.cfg EXCEPT !.otlphttp.enabled = Ptr(TRUE)])
            /\ (FlagTrue(validation.cfg.debug) /\ ViolatedOtlpPaths(validation.cfg) # {})
                   => (/\ validation.err # NoError
                       /\ ReportedPaths = ViolatedOtlpPaths(validation.cfg)))

\* only the debug exporter is enabled, the OTLP HTTP exporter is switched
\* off and its read buffer size is negative
C30_Witness ==
    /\ validation.called
    /\ validation.cfg = [ZeroConfig EXCEPT !.debug.enabled = Ptr(TRUE),
                                           !.otlphttp.read_buffer_size = -1]
    /\ validation.err # NoError
    /\ ReportedPaths = {"spec.exporters.otlphttp.read_buffer_size"}

====
